---- MODULE Spec2Model ----
(***************************************************************************)
(* asdf-validator-lite: the transaction-sourced fee daemon of               *)
(* src/daemon.ts (ValidatorLiteDaemon, lines 910-1474), its hash-chained    *)
(* history ledger and the ledger verifier.                                  *)
(*                                                                          *)
(* Strings of the program are modelled by values that keep their            *)
(* identity: a decimal string is Dec(n), an ISO date string is Iso(ms), a   *)
(* SHA-256 digest is sha256(data) (collision-free: two digests are equal    *)
(* exactly when the hashed data are equal), and the '|'-joined string of    *)
(* computeEntryHash is the tuple of the joined fields.                      *)
(***************************************************************************)
EXTENDS Integers, Sequences, FiniteSets, Bags, TLC

\* ------------------------------------------------------------------------
\* Bounds of the model
\* ------------------------------------------------------------------------

\* longest ledger the ledger specification builds
MaxLen == 3

\* ------------------------------------------------------------------------
\* Optional values (null / undefined of the program)
\* ------------------------------------------------------------------------

None == << >>

Some(x) == << x >>

\* ------------------------------------------------------------------------
\* String conversions
\* ------------------------------------------------------------------------

\* Number.prototype.toString / BigInt.prototype.toString: the decimal string
Dec(n) == << "dec", n >>

\* BigInt(s) of a decimal string
BigIntOf(s) == s[2]

\* a string that is not an integer literal: BigInt(s) throws a SyntaxError
NotDecimal == << "text", "1.5" >>

\* BigInt(s) returns
IsDecimal(s) == s[1] = "dec"

\* new Date(ms).toISOString()
Iso(ms) == << "iso", ms >>

\* createHash('sha256').update(data).digest('hex')
sha256(data) == << "sha256", data >>

\* ------------------------------------------------------------------------
\* Proof-of-History types
\* ------------------------------------------------------------------------

GENESIS_HASH == << "a1b2c3d4e5f6789012345678901234567890abcdef1234567890abcdef123456" >>

HistoryEventType == {"FEE", "CLAIM", "MIGRATE"}

VaultType == {"BC", "AMM"}

\* instrument identity (base58 strings)
MINT == "mint"

BONDING_CURVE == "bondingCurve"

POOL == "pool"

CREATOR == "creator"

VAULT_BC == "creatorVaultBC"

VAULT_AMM == "creatorVaultAMM"

\* the wall clock, read by new Date().toISOString() in saveHistory
NOW == "now"

computeEntryHashDropsSignature(entry) ==
    sha256(<< Dec(entry.sequence), entry.prevHash, entry.eventType,
              entry.vaultType, entry.vault, entry.amount,
              entry.balanceBefore, entry.balanceAfter,
              Dec(entry.slot), Dec(entry.timestamp) >>)

computeEntryHash(entry) ==
    sha256(<< Dec(entry.sequence), entry.prevHash, entry.eventType,
              entry.vaultType, entry.vault, entry.amount,
              entry.balanceBefore, entry.balanceAfter,
              Dec(entry.slot), Dec(entry.timestamp), entry.txSignature >>)

\* VerifyResult; entryIndex = -1 and error = << >> stand for "undefined"
VerifyValid == [valid |-> TRUE, entryIndex |-> -1, error |-> << >>]

VerifyInvalid(i, err) == [valid |-> FALSE, entryIndex |-> i, error |-> err]

\* the loop of verifyHistoryChain from 1-based position k on
RECURSIVE VerifyFrom(_, _, _)
VerifyFrom(entries, k, expectedPrevHash) ==
    IF k > Len(entries) THEN VerifyValid
    ELSE LET entry == entries[k] IN
         IF entry.sequence # k
           THEN VerifyInvalid(k - 1, << "Expected sequence", k, entry.sequence >>)
         ELSE IF entry.prevHash # expectedPrevHash
           THEN VerifyInvalid(k - 1, << "prevHash mismatch" >>)
         ELSE IF computeEntryHash(entry) # entry.hash
           THEN VerifyInvalid(k - 1, << "Hash mismatch" >>)
         ELSE VerifyFrom(entries, k + 1, entry.hash)

DestructuredDeletesHash(entry) == [entry EXCEPT !.hash = << >>]

\* the entry after const { hash, ...entryWithoutHash } = entry: the rest
\* pattern copies the other fields into a new object and leaves entry alone
Destructured(entry) == entry

verifyHistoryChainHashBeforeLink(log) ==
    LET r == IF Len(log.entries) = 0 THEN VerifyValid
             ELSE VerifyFrom(log.entries, 1, GENESIS_HASH)
    IN IF /\ ~r.valid
          /\ r.error = << "prevHash mismatch" >>
          /\ computeEntryHash(log.entries[r.entryIndex + 1])
                # log.entries[r.entryIndex + 1].hash
         THEN VerifyInvalid(r.entryIndex, << "Hash mismatch" >>)
         ELSE r

verifyHistoryChainChecksSummary(log) ==
    IF log.entryCount # Len(log.entries)
      THEN VerifyInvalid(0, << "entryCount mismatch" >>)
    ELSE IF Len(log.entries) = 0 THEN VerifyValid
    ELSE VerifyFrom(log.entries, 1, GENESIS_HASH)

verifyHistoryChain(log) ==
    IF Len(log.entries) = 0 THEN VerifyValid
    ELSE VerifyFrom(log.entries, 1, GENESIS_HASH)

\* ------------------------------------------------------------------------
\* The persisted document: JSON.stringify / JSON.parse
\* ------------------------------------------------------------------------

JNumber(n) == << "number", n >>

JString(s) == << "string", s >>

JBool(b) == << "bool", b >>

JValue(j) == j[2]

EntryToJson(e) ==
    [sequence |-> JNumber(e.sequence), prevHash |-> JString(e.prevHash),
     eventType |-> JString(e.eventType), vaultType |-> JString(e.vaultType),
     vault |-> JString(e.vault), amount |-> JString(e.amount),
     balanceBefore |-> JString(e.balanceBefore),
     balanceAfter |-> JString(e.balanceAfter),
     slot |-> JNumber(e.slot), timestamp |-> JNumber(e.timestamp),
     date |-> JString(e.date), txSignature |-> JString(e.txSignature),
     hash |-> JString(e.hash)]

EntryFromJson(j) == [f \in DOMAIN j |-> JValue(j[f])]

\* JSON.stringify(this.historyLog, null, 2)
JSON_stringify(log) ==
    [version |-> JString(log.version), mint |-> JString(log.mint),
     symbol |-> JString(log.symbol), bondingCurve |-> JString(log.bondingCurve),
     creator |-> JString(log.creator),
     creatorVaultBC |-> JString(log.creatorVaultBC),
     creatorVaultAMM |-> JString(log.creatorVaultAMM),
     pool |-> JString(log.pool), migrated |-> JBool(log.migrated),
     startedAt |-> JString(log.startedAt),
     lastUpdated |-> JString(log.lastUpdated),
     totalFees |-> JString(log.totalFees),
     entryCount |-> JNumber(log.entryCount),
     latestHash |-> JString(log.latestHash),
     entries |-> [i \in 1..Len(log.entries) |-> EntryToJson(log.entries[i])]]

\* JSON.parse(content) as HistoryLog
JSON_parse(doc) ==
    [f \in DOMAIN doc |->
        IF f = "entries"
          THEN [i \in 1..Len(doc.entries) |-> EntryFromJson(doc.entries[i])]
          ELSE JValue(doc[f])]

loadHistoryLogTruncating(content) ==
    LET log == JSON_parse(content) IN
    [log EXCEPT !.entries = IF Len(@) = 0 THEN @ ELSE SubSeq(@, 1, Len(@) - 1)]

\* loadHistoryLog applied to the content of the file
loadHistoryLog(content) == JSON_parse(content)

\* a file content that is not JSON: JSON.parse throws
Garbage == [text |-> "not json"]

\* loadHistoryLog returns
Loads(content) == "text" \notin DOMAIN content

\* ------------------------------------------------------------------------
\* Ledger operations of the daemon
\* ------------------------------------------------------------------------

\* the fresh ledger of initializeHistory
NewHistoryLog(migrated) ==
    [version |-> "1.0.0", mint |-> MINT, symbol |-> "TOKEN",
     bondingCurve |-> BONDING_CURVE, creator |-> CREATOR,
     creatorVaultBC |-> VAULT_BC, creatorVaultAMM |-> VAULT_AMM,
     pool |-> POOL, migrated |-> migrated,
     startedAt |-> Iso(NOW), lastUpdated |-> Iso(NOW),
     totalFees |-> Dec(0), entryCount |-> 0,
     latestHash |-> GENESIS_HASH, entries |-> << >>]

EntryOf(sequence, prevHash, c) ==
    LET entryWithoutHash ==
          [sequence |-> sequence, prevHash |-> prevHash,
           eventType |-> c.eventType, vaultType |-> c.vaultType,
           vault |-> c.vault, amount |-> c.amount,
           balanceBefore |-> c.balanceBefore, balanceAfter |-> c.balanceAfter,
           slot |-> c.slot, timestamp |-> c.timestamp,
           date |-> Iso(c.timestamp), txSignature |-> c.txSignature]
    IN [f \in DOMAIN entryWithoutHash \cup {"hash"} |->
           IF f = "hash" THEN computeEntryHash(entryWithoutHash)
                         ELSE entryWithoutHash[f]]

createHistoryEntryUnlinked(log, c) ==
    EntryOf(Len(log.entries) + 1, GENESIS_HASH, c)

createHistoryEntrySameSequence(log, c) ==
    EntryOf(IF Len(log.entries) > 0 THEN Len(log.entries) ELSE 1,
            IF Len(log.entries) > 0
              THEN log.entries[Len(log.entries)].hash ELSE GENESIS_HASH, c)

\* createHistoryEntry on the ledger log, for the candidate event c
createHistoryEntry(log, c) ==
    EntryOf(Len(log.entries) + 1,
            IF Len(log.entries) > 0
              THEN log.entries[Len(log.entries)].hash ELSE GENESIS_HASH, c)

\* this.historyLog.entries.push(entry)
PushEntry(log, entry) == [log EXCEPT !.entries = Append(@, entry)]

\* the summary update of saveHistory, before the write
saveHistory(log, bc, amm) ==
    [log EXCEPT !.lastUpdated = Iso(NOW),
                !.totalFees = Dec(bc + amm),
                !.entryCount = Len(log.entries),
                !.latestHash = IF Len(log.entries) > 0
                                 THEN log.entries[Len(log.entries)].hash ELSE @]

\* ------------------------------------------------------------------------
\* State
\* ------------------------------------------------------------------------

VARIABLES
    running,            \* this.running
    pollTimer,          \* this.pollTimer is set
    timers,             \* armed setInterval poll timers
    starting,           \* start() calls suspended in initializeToken
    startCalls,         \* start() calls made on this daemon object
    ticks,              \* bag of the poll() calls in progress
    tokenInfo,          \* this.tokenInfo: None, or Some([migrated |-> ...])
    lastBCSignature,    \* this.lastBCSignature
    lastAMMSignature,   \* this.lastAMMSignature
    processedTxs,       \* this.processedTxs
    bcFees,             \* this.bcFees
    ammFees,            \* this.ammFees
    historyLog,         \* this.historyLog: None, or Some(HistoryLog)
    file,               \* content of config.historyFile: None when absent
    callbacks,          \* how often each config callback has been called
    tamper,             \* the single stored field an editor changed, if any
    savedFrom,          \* the ledger handed to the last saveHistory
    reloaded,           \* the ledger read back from the file
    lastTx,             \* the transaction record handed to the extractor last
    lastEvent,          \* what the extractor made of it
    prev,               \* fee totals, ledger and callbacks before that
    observed,           \* the poll of one account that is being watched
    perAccount,         \* per account: the list at its first observation and
                        \* the signatures handed to its extractor since
    lastCall,           \* the data-source call or write the last step made
    verified,           \* exit code and report of the verify command run
    checked,            \* the ledger handed to verifyHistoryChain and its result
    lastBCBalance,      \* this.lastBCBalance of the balance-polling daemon
    lastAMMBalance,     \* this.lastAMMBalance of the balance-polling daemon
    polled              \* the balance polls watched: what each vault was seen
                        \* to hold, and the poll made last

\* no account has been observed yet
NothingObserved ==
    [first |-> [BC |-> {}, AMM |-> {}], handled |-> [BC |-> {}, AMM |-> {}]]

\* what processing one transaction can change
feeVars == << bcFees, ammFees, historyLog, file, callbacks >>

\* the signature cursors
cursorVars == << lastBCSignature, lastAMMSignature, processedTxs >>

\* the lifecycle of the daemon object
lifeVars == << running, pollTimer, timers, starting, startCalls >>

daemonVars == << lifeVars, tokenInfo, cursorVars, feeVars, ticks >>

ledgerVars == << tamper, savedFrom, reloaded >>

extractVars == << lastTx, lastEvent, prev >>

cursorGhost == << observed, perAccount >>

callGhost == << lastCall >>

\* runs of the verifier
cliVars == << verified, checked >>

\* the balance-polling daemon
balanceVars == << lastBCBalance, lastAMMBalance, polled >>

vars == << daemonVars, ledgerVars, extractVars, cursorGhost, callGhost,
                    cliVars, balanceVars >>

NULL == "null"

NoCallbacks == [onFeeDetected |-> 0, onHistoryEntry |-> 0, onMigration |-> 0]

\* transaction signatures
Sigs == {"S3", "S4", "S5"}

\* ------------------------------------------------------------------------
\* Transaction records of the data source
\* ------------------------------------------------------------------------

PAYER == "payer"

UNRELATED == "unrelated"

\* Array.prototype.includes
Includes(keys, a) == \E i \in 1..Len(keys) : keys[i] = a

\* Array.prototype.indexOf: 0-based, -1 when absent
IndexOf(keys, a) ==
    IF Includes(keys, a)
      THEN (CHOOSE i \in 1..Len(keys) :
              keys[i] = a /\ \A j \in 1..(i - 1) : keys[j] # a) - 1
      ELSE -1

\* arr[i] || 0 for a 0-based index i
AtOrZero(arr, i) == IF i + 1 \in 1..Len(arr) THEN arr[i + 1] ELSE 0

\* staticAccountKeys, then loadedAddresses.writable, then .readonly
AccountKeys(tx) ==
    tx.staticAccountKeys \o
      (IF tx.loadedAddresses = None THEN << >>
       ELSE tx.loadedAddresses[1].writable \o tx.loadedAddresses[1].readonly)

\* first entry of a token-balance table whose account is the vault, or 0
RECURSIVE TokenBalanceFrom(_, _, _, _)
TokenBalanceFrom(table, k, keys, vaultAddress) ==
    IF k > Len(table) THEN 0
    ELSE IF /\ table[k].accountIndex + 1 \in 1..Len(keys)
            /\ keys[table[k].accountIndex + 1] = vaultAddress
           THEN BigIntOf(table[k].amount)
           ELSE TokenBalanceFrom(table, k + 1, keys, vaultAddress)

NoEvent == None

FeeEvent(vaultType, vault, delta, preBalance, postBalance, tx, sig) ==
    Some([eventType |-> "FEE", vaultType |-> vaultType, vault |-> vault,
          amount |-> Dec(delta), balanceBefore |-> Dec(preBalance),
          balanceAfter |-> Dec(postBalance), slot |-> tx.slot,
          timestamp |-> tx.blockTime * 1000, txSignature |-> sig,
          delta |-> delta, postBalance |-> postBalance])

ExtractBCRecordsLosses(vaultType, vault, sig, tx) ==
    IF tx.kind # "tx" THEN NoEvent
    ELSE LET accountKeys == AccountKeys(tx)
             involveOurToken == \/ Includes(accountKeys, MINT)
                                \/ Includes(accountKeys, BONDING_CURVE)
             vaultIndex == IndexOf(accountKeys, vault)
             preBalance == AtOrZero(tx.preBalances, vaultIndex)
             postBalance == AtOrZero(tx.postBalances, vaultIndex)
             delta == postBalance - preBalance
         IN IF ~involveOurToken THEN NoEvent
            ELSE IF vaultIndex = -1 THEN NoEvent
            ELSE IF delta = 0 THEN NoEvent
            ELSE FeeEvent(vaultType, vault, delta, preBalance, postBalance, tx, sig)

ExtractBCNoRelevanceCheck(vaultType, vault, sig, tx) ==
    IF tx.kind # "tx" THEN NoEvent
    ELSE LET accountKeys == AccountKeys(tx)
             vaultIndex == IndexOf(accountKeys, vault)
             preBalance == AtOrZero(tx.preBalances, vaultIndex)
             postBalance == AtOrZero(tx.postBalances, vaultIndex)
             delta == postBalance - preBalance
         IN IF vaultIndex = -1 THEN NoEvent
            ELSE IF delta <= 0 THEN NoEvent
            ELSE FeeEvent(vaultType, vault, delta, preBalance, postBalance, tx, sig)

\* processTransaction up to the computation of delta and timestamp
ExtractBC(vaultType, vault, sig, tx) ==
    IF tx.kind # "tx" THEN NoEvent
    ELSE LET accountKeys == AccountKeys(tx)
             involveOurToken == \/ Includes(accountKeys, MINT)
                                \/ Includes(accountKeys, BONDING_CURVE)
             vaultIndex == IndexOf(accountKeys, vault)
             preBalance == AtOrZero(tx.preBalances, vaultIndex)
             postBalance == AtOrZero(tx.postBalances, vaultIndex)
             delta == postBalance - preBalance
         IN IF ~involveOurToken THEN NoEvent
            ELSE IF vaultIndex = -1 THEN NoEvent
            ELSE IF delta <= 0 THEN NoEvent
            ELSE FeeEvent(vaultType, vault, delta, preBalance, postBalance, tx, sig)

ExtractAMMPostOnly(vault, sig, tx) ==
    IF tx.kind # "tx" THEN NoEvent
    ELSE LET accountKeys == AccountKeys(tx)
             involveOurToken == \/ Includes(accountKeys, MINT)
                                \/ Includes(accountKeys, POOL)
             postBalance == TokenBalanceFrom(tx.postTokenBalances, 1, accountKeys, vault)
         IN IF ~involveOurToken THEN NoEvent
            ELSE IF postBalance <= 0 THEN NoEvent
            ELSE FeeEvent("AMM", vault, postBalance, 0, postBalance, tx, sig)

ExtractAMMRequiresBothSides(vault, sig, tx) ==
    IF tx.kind # "tx" THEN NoEvent
    ELSE LET accountKeys == AccountKeys(tx)
             involveOurToken == \/ Includes(accountKeys, MINT)
                                \/ Includes(accountKeys, POOL)
             held(table) == \E k \in 1..Len(table) :
                               /\ table[k].accountIndex + 1 \in 1..Len(accountKeys)
                               /\ accountKeys[table[k].accountIndex + 1] = vault
             preBalance == TokenBalanceFrom(tx.preTokenBalances, 1, accountKeys, vault)
             postBalance == TokenBalanceFrom(tx.postTokenBalances, 1, accountKeys, vault)
             delta == postBalance - preBalance
         IN IF ~involveOurToken THEN NoEvent
            ELSE IF ~held(tx.preTokenBalances) \/ ~held(tx.postTokenBalances)
              THEN NoEvent
            ELSE IF delta <= 0 THEN NoEvent
            ELSE FeeEvent("AMM", vault, delta, preBalance, postBalance, tx, sig)

\* processAMMTransaction up to the computation of delta and timestamp
ExtractAMM(vault, sig, tx) ==
    IF tx.kind # "tx" THEN NoEvent
    ELSE LET accountKeys == AccountKeys(tx)
             involveOurToken == \/ Includes(accountKeys, MINT)
                                \/ Includes(accountKeys, POOL)
             preBalance == TokenBalanceFrom(tx.preTokenBalances, 1, accountKeys, vault)
             postBalance == TokenBalanceFrom(tx.postTokenBalances, 1, accountKeys, vault)
             delta == postBalance - preBalance
         IN IF ~involveOurToken THEN NoEvent
            ELSE IF delta <= 0 THEN NoEvent
            ELSE FeeEvent("AMM", vault, delta, preBalance, postBalance, tx, sig)

\* how the collaborators called while a fee is recorded behave
Outcomes == {"ok", "onFeeDetectedThrows", "writeFails"}

\* saveHistory: the summary update, then fs.writeFileSync (which may throw)
SaveHistory(log, bc, amm, written) ==
    /\ historyLog' = Some(saveHistory(log, bc, amm))
    /\ file' = IF written THEN Some(JSON_stringify(saveHistory(log, bc, amm)))
                          ELSE file

RecordFeeSavesBeforePush(ev, bc, amm, outcome) ==
    /\ bcFees' = bc
    /\ ammFees' = amm
    /\ IF outcome = "onFeeDetectedThrows" \/ historyLog = None
         THEN /\ callbacks' = [callbacks EXCEPT !.onFeeDetected = @ + 1]
              /\ UNCHANGED << historyLog, file >>
         ELSE /\ historyLog' =
                   Some(PushEntry(saveHistory(historyLog[1], bc, amm),
                                  createHistoryEntry(historyLog[1], ev)))
              /\ file' = IF outcome = "writeFails" THEN file
                         ELSE Some(JSON_stringify(saveHistory(historyLog[1], bc, amm)))
              /\ callbacks' =
                   [callbacks EXCEPT !.onFeeDetected = @ + 1,
                                     !.onHistoryEntry =
                                        IF outcome = "writeFails" THEN @ ELSE @ + 1]

RecordFeeCallsBackBeforeSave(ev, bc, amm, outcome) ==
    /\ bcFees' = bc
    /\ ammFees' = amm
    /\ IF outcome = "onFeeDetectedThrows" \/ historyLog = None
         THEN /\ callbacks' = [callbacks EXCEPT !.onFeeDetected = @ + 1]
              /\ UNCHANGED << historyLog, file >>
         ELSE /\ SaveHistory(PushEntry(historyLog[1],
                                       createHistoryEntry(historyLog[1], ev)),
                             bc, amm, outcome # "writeFails")
              /\ callbacks' = [callbacks EXCEPT !.onFeeDetected = @ + 1,
                                                !.onHistoryEntry = @ + 1]

\* the rest of processTransaction / processAMMTransaction once a fee event
\* was extracted: fee total, onFeeDetected, createHistoryEntry, push,
\* saveHistory, onHistoryEntry; a throw ends it (catch and log)
RecordFee(ev, bc, amm, outcome) ==
    /\ bcFees' = bc
    /\ ammFees' = amm
    /\ IF outcome = "onFeeDetectedThrows"
         THEN /\ callbacks' = [callbacks EXCEPT !.onFeeDetected = @ + 1]
              /\ UNCHANGED << historyLog, file >>
       ELSE IF historyLog = None
         THEN /\ callbacks' = [callbacks EXCEPT !.onFeeDetected = @ + 1]
              /\ UNCHANGED << historyLog, file >>
       ELSE /\ SaveHistory(PushEntry(historyLog[1],
                                     createHistoryEntry(historyLog[1], ev)),
                           bc, amm, outcome # "writeFails")
            /\ callbacks' =
                 [callbacks EXCEPT !.onFeeDetected = @ + 1,
                                   !.onHistoryEntry =
                                      IF outcome = "writeFails" THEN @ ELSE @ + 1]

\* processTransaction(vaultType, vault, sigInfo) after getTransaction returned tx
processTransaction(vaultType, vault, sig, tx, outcome) ==
    LET ev == ExtractBC(vaultType, vault, sig, tx) IN
    IF ev = NoEvent THEN UNCHANGED feeVars
    ELSE RecordFee(ev[1], bcFees + ev[1].delta, ammFees, outcome)

\* processAMMTransaction(vault, sigInfo) after getTransaction returned tx
processAMMTransaction(vault, sig, tx, outcome) ==
    LET ev == ExtractAMM(vault, sig, tx) IN
    IF ev = NoEvent THEN UNCHANGED feeVars
    ELSE RecordFee(ev[1], bcFees, ammFees + ev[1].delta, outcome)

\* ------------------------------------------------------------------------
\* Transaction records the data source can return
\* ------------------------------------------------------------------------

\* lamport and token amounts
Amounts == {0, 1000000, 1500000}

\* a token-balance table without an entry for the account
ABSENT == -1

\* the mint among the static keys: relevant for both vaults
LayoutMint == [static |-> << PAYER, VAULT_BC, VAULT_AMM, MINT >>, loaded |-> None]

\* neither the mint nor a state address
LayoutUnrelated ==
    [static |-> << PAYER, VAULT_BC, VAULT_AMM, UNRELATED >>, loaded |-> None]

KeyLayouts ==
    { LayoutMint, LayoutUnrelated,
      [static |-> << PAYER, VAULT_BC, VAULT_AMM >>,
       loaded |-> Some([writable |-> << BONDING_CURVE >>, readonly |-> << >>])],
      [static |-> << PAYER, VAULT_BC, VAULT_AMM >>,
       loaded |-> Some([writable |-> << >>, readonly |-> << POOL >>])],
      [static |-> << PAYER, MINT >>,
       loaded |-> Some([writable |-> << VAULT_AMM >>, readonly |-> << >>])] }

\* <<pre, post>> lamports of the native vault: none, gain, loss
LamportChanges == { << 0, 0 >>, << 1000000, 1500000 >>, << 1500000, 1000000 >> }

\* <<pre, post>> token amounts of the fungible vault
TokenChanges ==
    { << ABSENT, ABSENT >>, << 1000000, 1500000 >>, << ABSENT, 1000000 >>,
      << 1000000, ABSENT >>, << 1500000, 1000000 >>, << 1000000, 1000000 >> }

TokenTable(keys, amount) ==
    << [accountIndex |-> 0, amount |-> Dec(7)] >> \o
      (IF amount = ABSENT \/ ~Includes(keys, VAULT_AMM) THEN << >>
       ELSE << [accountIndex |-> IndexOf(keys, VAULT_AMM), amount |-> Dec(amount)] >>)

MkTx(layout, lam, tok, blockTime) ==
    LET keys == layout.static \o
                  (IF layout.loaded = None THEN << >>
                   ELSE layout.loaded[1].writable \o layout.loaded[1].readonly)
    IN [kind |-> "tx",
        staticAccountKeys |-> layout.static,
        loadedAddresses |-> layout.loaded,
        preBalances |-> [i \in 1..Len(keys) |->
                            IF keys[i] = VAULT_BC THEN lam[1] ELSE 0],
        postBalances |-> [i \in 1..Len(keys) |->
                            IF keys[i] = VAULT_BC THEN lam[2] ELSE 0],
        preTokenBalances |-> TokenTable(keys, tok[1]),
        postTokenBalances |-> TokenTable(keys, tok[2]),
        slot |-> 7,
        blockTime |-> blockTime]

\* getTransaction returned null, a record without meta, or threw
NoTransaction == { [kind |-> "absent"], [kind |-> "noMeta"], [kind |-> "error"] }

\* blockTime: null (|| 0) or a time in seconds
BlockTimes == {0, 1}

Transactions ==
    NoTransaction \cup
    { MkTx(layout, lam, tok, bt) :
        layout \in KeyLayouts, lam \in LamportChanges,
        tok \in TokenChanges, bt \in BlockTimes }

\* ------------------------------------------------------------------------
\* The daemon: start, stop, and the poll ticks of the interval timer.  Every
\* action is the synchronous run of the code between two awaits; a tick in
\* progress is a record of the bag ticks, suspended at the await pc names.
\* ------------------------------------------------------------------------

\* poll() calls that can be in progress at once
MaxTicks == 2

\* fee events recorded before the data source stops returning fee transactions
MaxEntries == 2

\* start() calls made on one daemon object
MaxStartCalls == 2

\* all signatures of an account, newest first
Chain == << "S5", "S4", "S3" >>

Reverse(seq) == [i \in 1..Len(seq) |-> seq[Len(seq) + 1 - i]]

\* what getSignaturesForAddress can return: any part of the chain, newest
\* first (entries pruned, dropped by a reorg or beyond the limit are missing)
SignatureLists ==
    { SelectSeq(Chain, LAMBDA x : x \in S) : S \in SUBSET Sigs }

\* getSignaturesForAddress returned a list, or threw
SignatureResults ==
    { [ok |-> TRUE, list |-> l] : l \in SignatureLists }
      \cup { [ok |-> FALSE, list |-> << >>] }

\* the signatures that exist while the daemon with its overlapping ticks runs
MainSigs == {"S4", "S5"}

MainResults ==
    { r \in SignatureResults : \A i \in 1..Len(r.list) : r.list[i] \in MainSigs }

\* getAccountInfo of the bonding curve, and deserializeBondingCurve of it
Snapshots ==
    { [kind |-> "absent", complete |-> FALSE],
      [kind |-> "undecodable", complete |-> FALSE],
      [kind |-> "error", complete |-> FALSE],
      [kind |-> "account", complete |-> FALSE],
      [kind |-> "account", complete |-> TRUE] }

\* transaction records the data source returns to the running daemon
TxMain ==
    { [kind |-> "absent"],
      MkTx(LayoutMint, << 1000000, 1500000 >>, << 1000000, 1500000 >>, 1),
      MkTx(LayoutUnrelated, << 1000000, 1500000 >>, << 1000000, 1500000 >>, 1) }

\* transaction records, a record without meta, and a throw inside the try
\* block of processTransaction (getTransaction, or the reading of the record)
TxFaults == TxMain \cup { [kind |-> "noMeta"], [kind |-> "error"] }

\* what the last step did: the operation, the result of its data-source
\* call, the signature it was about, and what became of its file write
Call(op, result, sig, write) ==
    Some([op |-> op, result |-> result, sig |-> sig, write |-> write])

WriteOf(attempted, written) ==
    IF ~attempted THEN "none" ELSE IF written THEN "ok" ELSE "failed"

\* a poll() in progress: the await it is suspended at, signatures[0] of the
\* list of the vault being polled, and the new signatures still to process
Tick(pc) == [pc |-> pc, head |-> NULL, queue |-> << >>]

\* the tick u goes on as the ticks of the bag us
Continue(u, us) == (ticks (-) SetToBag({u})) (+) us

\* poll() after pollVaultTransactions returned
AfterBC == IF tokenInfo[1].migrated THEN SetToBag({Tick("ammSigs")}) ELSE EmptyBag

\* poll() after pollAMMVaultTransactions returned
AfterAMM == EmptyBag

\* the scan of the signature list for new transactions
RECURSIVE NewSigsFrom(_, _, _, _)
NewSigsFrom(signatures, k, lastSignature, processed) ==
    IF k > Len(signatures) THEN << >>
    ELSE IF signatures[k] = lastSignature THEN << >>
    ELSE IF signatures[k] \notin processed
      THEN << signatures[k] >> \o NewSigsFrom(signatures, k + 1, lastSignature, processed)
      ELSE NewSigsFrom(signatures, k + 1, lastSignature, processed)

NewSigs(signatures, lastSignature, processed) ==
    NewSigsFrom(signatures, 1, lastSignature, processed)

\* amounts of the loaded FEE entries of one vault type, as initializeHistory
\* adds them up
RECURSIVE LoadedFees(_, _, _)
LoadedFees(entries, k, vaultType) ==
    IF k > Len(entries) THEN 0
    ELSE (IF /\ entries[k].eventType = "FEE"
             /\ BigIntOf(entries[k].amount) > 0
             /\ (entries[k].vaultType = "BC") = (vaultType = "BC")
            THEN BigIntOf(entries[k].amount) ELSE 0)
         + LoadedFees(entries, k + 1, vaultType)

\* the process ends inside fs.writeFileSync of the saveHistory of stop()
\* (which opens the file truncating it and then writes): the file is left
\* partial, and a new daemon object is constructed in a new process
crashInWrite ==
    /\ running
    /\ historyLog # None
    /\ file' = Some(Garbage)
    /\ running' = FALSE
    /\ pollTimer' = FALSE
    /\ timers' = 0
    /\ starting' = 0
    /\ startCalls' = 0
    /\ ticks' = EmptyBag
    /\ tokenInfo' = None
    /\ lastBCSignature' = NULL
    /\ lastAMMSignature' = NULL
    /\ processedTxs' = {}
    /\ bcFees' = 0
    /\ ammFees' = 0
    /\ historyLog' = None
    /\ callbacks' = NoCallbacks

\* the first entry whose amount makes BigInt throw, 0 when there is none
FirstThrowing(entries) ==
    IF \E i \in 1..Len(entries) : ~IsDecimal(entries[i].amount)
      THEN CHOOSE i \in 1..Len(entries) :
             /\ ~IsDecimal(entries[i].amount)
             /\ \A j \in 1..(i - 1) : IsDecimal(entries[j].amount)
      ELSE 0

\* initializeHistory does not return from its load branch: there is no
\* file, or loading it or restoring from it throws
CreatesFresh ==
    \/ file = None
    \/ ~Loads(file[1])
    \/ FirstThrowing(loadHistoryLog(file[1]).entries) # 0

initializeHistoryForgetsEntries(migrated, written) ==
    IF file # None /\ Loads(file[1]) /\ FirstThrowing(loadHistoryLog(file[1]).entries) = 0
      THEN LET log == loadHistoryLog(file[1]) IN
           /\ historyLog' = Some([log EXCEPT !.entries = << >>])
           /\ processedTxs' = processedTxs \cup
                 { log.entries[i].txSignature : i \in 1..Len(log.entries) }
           /\ bcFees' = bcFees + LoadedFees(log.entries, 1, "BC")
           /\ ammFees' = ammFees + LoadedFees(log.entries, 1, "AMM")
           /\ UNCHANGED file
      ELSE /\ SaveHistory(NewHistoryLog(migrated), bcFees, ammFees, written)
           /\ UNCHANGED << processedTxs, bcFees, ammFees >>

\* initializeHistory, with tokenInfo.migrated = migrated: the file is loaded
\* and totals and processed signatures are restored from it; without a
\* file, or when loading or restoring throws, a fresh ledger is written
\* (a throw of that write leaves initializeHistory)
initializeHistory(migrated, written) ==
    IF file # None /\ Loads(file[1])
      THEN LET log == loadHistoryLog(file[1])
               bad == FirstThrowing(log.entries)
               done == SubSeq(log.entries, 1, bad - 1)
           IN IF bad = 0
                THEN /\ historyLog' = Some(log)
                     /\ processedTxs' = processedTxs \cup
                           { log.entries[i].txSignature : i \in 1..Len(log.entries) }
                     /\ bcFees' = bcFees + LoadedFees(log.entries, 1, "BC")
                     /\ ammFees' = ammFees + LoadedFees(log.entries, 1, "AMM")
                     /\ UNCHANGED file
                ELSE /\ processedTxs' = processedTxs \cup
                           { log.entries[i].txSignature : i \in 1..bad }
                     /\ bcFees' = bcFees + LoadedFees(done, 1, "BC")
                     /\ ammFees' = ammFees + LoadedFees(done, 1, "AMM")
                     /\ historyLog' = Some(saveHistory(NewHistoryLog(migrated),
                                                       bcFees', ammFees'))
                     /\ file' = IF written
                                  THEN Some(JSON_stringify(historyLog'[1]))
                                  ELSE file
      ELSE /\ SaveHistory(NewHistoryLog(migrated), bcFees, ammFees, written)
           /\ UNCHANGED << processedTxs, bcFees, ammFees >>

\* start() up to the await in initializeToken
start ==
    /\ ~running
    /\ starting' = starting + 1
    /\ startCalls' = startCalls + 1
    /\ UNCHANGED << running, pollTimer, timers, tokenInfo, cursorVars,
                    feeVars, ticks >>

\* initializeToken after getAccountInfo returned
initializeToken(snapshot) ==
    tokenInfo' = Some([migrated |-> snapshot.complete])

\* start() from the return of getAccountInfo on: initializeToken,
\* initializeHistory, running = true, setInterval; start() throws when the
\* account is absent or undecodable and when the write of a fresh ledger
\* throws
startResume(snapshot, written) ==
    /\ starting > 0
    /\ starting' = starting - 1
    /\ IF snapshot.kind # "account"
         THEN UNCHANGED << running, pollTimer, timers, tokenInfo, cursorVars,
                           feeVars >>
         ELSE /\ initializeToken(snapshot)
              /\ initializeHistory(snapshot.complete, written)
              /\ IF CreatesFresh /\ ~written
                   THEN UNCHANGED << running, pollTimer, timers >>
                   ELSE /\ running' = TRUE
                        /\ pollTimer' = TRUE
                        /\ timers' = timers + 1
              /\ UNCHANGED << lastBCSignature, lastAMMSignature, callbacks >>
    /\ UNCHANGED << startCalls, ticks >>

\* stop(); a throw of the final write leaves it after the timers are cleared
stop(written) ==
    /\ running
    /\ running' = FALSE
    /\ pollTimer' = FALSE
    /\ timers' = IF pollTimer THEN timers - 1 ELSE timers
    /\ IF historyLog # None
         THEN SaveHistory(historyLog[1], bcFees, ammFees, written)
         ELSE UNCHANGED << historyLog, file >>
    /\ UNCHANGED << starting, startCalls, tokenInfo, cursorVars, bcFees,
                    ammFees, callbacks, ticks >>

\* the process ends and a new daemon object is constructed in a new process
processRestart ==
    /\ running' = FALSE
    /\ pollTimer' = FALSE
    /\ timers' = 0
    /\ starting' = 0
    /\ startCalls' = 0
    /\ ticks' = EmptyBag
    /\ tokenInfo' = None
    /\ lastBCSignature' = NULL
    /\ lastAMMSignature' = NULL
    /\ processedTxs' = {}
    /\ bcFees' = 0
    /\ ammFees' = 0
    /\ historyLog' = None
    /\ callbacks' = NoCallbacks
    /\ UNCHANGED file

\* the poll timer fires: poll() up to its first await
poll ==
    /\ timers > 0
    /\ running
    /\ tokenInfo # None
    /\ ticks' = ticks (+) SetToBag({Tick(IF tokenInfo[1].migrated
                                            THEN "bcSigs" ELSE "checkMigration")})
    /\ UNCHANGED << lifeVars, tokenInfo, cursorVars, feeVars >>

\* checkMigration after getAccountInfo returned, then poll() up to the
\* await in pollVaultTransactions
checkMigration(u, snapshot, outcome) ==
    /\ u.pc = "checkMigration"
    /\ IF snapshot.kind = "account" /\ snapshot.complete /\ ~tokenInfo[1].migrated
         THEN /\ tokenInfo' = Some([tokenInfo[1] EXCEPT !.migrated = TRUE])
              /\ IF historyLog # None
                   THEN SaveHistory([historyLog[1] EXCEPT !.migrated = TRUE],
                                    bcFees, ammFees, outcome # "writeFails")
                   ELSE UNCHANGED << historyLog, file >>
              /\ callbacks' = IF historyLog # None /\ outcome = "writeFails"
                                THEN callbacks
                                ELSE [callbacks EXCEPT !.onMigration = @ + 1]
         ELSE UNCHANGED << tokenInfo, historyLog, file, callbacks >>
    /\ ticks' = Continue(u, SetToBag({Tick("bcSigs")}))
    /\ UNCHANGED << lifeVars, cursorVars, bcFees, ammFees >>

pollVaultTransactionsMovesOnEmpty(u, result) ==
    /\ u.pc = "bcSigs"
    /\ IF ~result.ok
         THEN /\ ticks' = Continue(u, AfterBC)
              /\ UNCHANGED lastBCSignature
       ELSE IF Len(result.list) = 0
         THEN /\ ticks' = Continue(u, AfterBC)
              /\ lastBCSignature' = NULL
       ELSE IF lastBCSignature = NULL
         THEN /\ lastBCSignature' = result.list[1]
              /\ ticks' = Continue(u, AfterBC)
       ELSE LET newSigs == NewSigs(result.list, lastBCSignature, processedTxs) IN
            /\ UNCHANGED lastBCSignature
            /\ ticks' = Continue(u,
                 IF Len(newSigs) = 0 THEN AfterBC
                 ELSE SetToBag({[pc |-> "bcTx", head |-> result.list[1],
                                 queue |-> Reverse(newSigs)]}))
    /\ UNCHANGED << lifeVars, tokenInfo, lastAMMSignature, processedTxs, feeVars >>

pollVaultTransactionsFatal(u, result) ==
    /\ u.pc = "bcSigs"
    /\ IF ~result.ok
         THEN /\ ticks' = Continue(u, EmptyBag)
              /\ running' = FALSE
              /\ pollTimer' = FALSE
              /\ timers' = 0
              /\ UNCHANGED << lastBCSignature, starting, startCalls >>
       ELSE IF Len(result.list) = 0
         THEN /\ ticks' = Continue(u, AfterBC)
              /\ UNCHANGED << lastBCSignature, lifeVars >>
       ELSE IF lastBCSignature = NULL
         THEN /\ lastBCSignature' = result.list[1]
              /\ ticks' = Continue(u, AfterBC)
              /\ UNCHANGED lifeVars
       ELSE LET newSigs == NewSigs(result.list, lastBCSignature, processedTxs) IN
            /\ UNCHANGED << lastBCSignature, lifeVars >>
            /\ ticks' = Continue(u,
                 IF Len(newSigs) = 0 THEN AfterBC
                 ELSE SetToBag({[pc |-> "bcTx", head |-> result.list[1],
                                 queue |-> Reverse(newSigs)]}))
    /\ UNCHANGED << tokenInfo, lastAMMSignature, processedTxs, feeVars >>

pollVaultTransactionsNewestFirst(u, result) ==
    /\ u.pc = "bcSigs"
    /\ IF ~result.ok \/ Len(result.list) = 0
         THEN /\ ticks' = Continue(u, AfterBC)
              /\ UNCHANGED lastBCSignature
       ELSE IF lastBCSignature = NULL
         THEN /\ lastBCSignature' = result.list[1]
              /\ ticks' = Continue(u, AfterBC)
       ELSE LET newSigs == NewSigs(result.list, lastBCSignature, processedTxs) IN
            /\ UNCHANGED lastBCSignature
            /\ ticks' = Continue(u,
                 IF Len(newSigs) = 0 THEN AfterBC
                 ELSE SetToBag({[pc |-> "bcTx", head |-> result.list[1],
                                 queue |-> newSigs]}))
    /\ UNCHANGED << lifeVars, tokenInfo, lastAMMSignature, processedTxs, feeVars >>

pollVaultTransactionsReplaysFirst(u, result) ==
    /\ u.pc = "bcSigs"
    /\ IF ~result.ok \/ Len(result.list) = 0
         THEN /\ ticks' = Continue(u, AfterBC)
              /\ UNCHANGED lastBCSignature
       ELSE LET newSigs == NewSigs(result.list, lastBCSignature, processedTxs) IN
            /\ lastBCSignature' =
                 IF lastBCSignature = NULL THEN result.list[1] ELSE lastBCSignature
            /\ ticks' = Continue(u,
                 IF Len(newSigs) = 0 THEN AfterBC
                 ELSE SetToBag({[pc |-> "bcTx", head |-> result.list[1],
                                 queue |-> Reverse(newSigs)]}))
    /\ UNCHANGED << lifeVars, tokenInfo, lastAMMSignature, processedTxs, feeVars >>

\* pollVaultTransactions after getSignaturesForAddress returned, up to the
\* first getTransaction (or, without new signatures, on in poll())
pollVaultTransactions(u, result) ==
    /\ u.pc = "bcSigs"
    /\ IF ~result.ok \/ Len(result.list) = 0
         THEN /\ ticks' = Continue(u, AfterBC)
              /\ UNCHANGED lastBCSignature
       ELSE IF lastBCSignature = NULL
         THEN /\ lastBCSignature' = result.list[1]
              /\ ticks' = Continue(u, AfterBC)
       ELSE LET newSigs == NewSigs(result.list, lastBCSignature, processedTxs) IN
            /\ UNCHANGED lastBCSignature
            /\ ticks' = Continue(u,
                 IF Len(newSigs) = 0 THEN AfterBC
                 ELSE SetToBag({[pc |-> "bcTx", head |-> result.list[1],
                                 queue |-> Reverse(newSigs)]}))
    /\ UNCHANGED << lifeVars, tokenInfo, lastAMMSignature, processedTxs, feeVars >>

pollVaultTransactionsLoopEndsBatch(u, tx, outcome) ==
    /\ u.pc = "bcTx"
    /\ processTransaction("BC", VAULT_BC, Head(u.queue), tx, outcome)
    /\ processedTxs' = processedTxs \cup {Head(u.queue)}
    /\ IF Len(u.queue) > 1 /\ tx.kind = "tx"
         THEN /\ ticks' = Continue(u, SetToBag({[u EXCEPT !.queue = Tail(@)]}))
              /\ UNCHANGED lastBCSignature
         ELSE /\ lastBCSignature' = u.head
              /\ ticks' = Continue(u, AfterBC)
    /\ UNCHANGED << lifeVars, tokenInfo, lastAMMSignature >>

\* one round of the loop of pollVaultTransactions: processTransaction after
\* getTransaction returned, processedTxs.add, and after the last round the
\* update of lastBCSignature
pollVaultTransactionsLoop(u, tx, outcome) ==
    /\ u.pc = "bcTx"
    /\ processTransaction("BC", VAULT_BC, Head(u.queue), tx, outcome)
    /\ processedTxs' = processedTxs \cup {Head(u.queue)}
    /\ IF Len(u.queue) > 1
         THEN /\ ticks' = Continue(u, SetToBag({[u EXCEPT !.queue = Tail(@)]}))
              /\ UNCHANGED lastBCSignature
         ELSE /\ lastBCSignature' = u.head
              /\ ticks' = Continue(u, AfterBC)
    /\ UNCHANGED << lifeVars, tokenInfo, lastAMMSignature >>

\* pollAMMVaultTransactions after getSignaturesForAddress returned
pollAMMVaultTransactions(u, result) ==
    /\ u.pc = "ammSigs"
    /\ IF ~result.ok \/ Len(result.list) = 0
         THEN /\ ticks' = Continue(u, AfterAMM)
              /\ UNCHANGED lastAMMSignature
       ELSE IF lastAMMSignature = NULL
         THEN /\ lastAMMSignature' = result.list[1]
              /\ ticks' = Continue(u, AfterAMM)
       ELSE LET newSigs == NewSigs(result.list, lastAMMSignature, processedTxs) IN
            /\ UNCHANGED lastAMMSignature
            /\ ticks' = Continue(u,
                 IF Len(newSigs) = 0 THEN AfterAMM
                 ELSE SetToBag({[pc |-> "ammTx", head |-> result.list[1],
                                 queue |-> Reverse(newSigs)]}))
    /\ UNCHANGED << lifeVars, tokenInfo, lastBCSignature, processedTxs, feeVars >>

\* one round of the loop of pollAMMVaultTransactions
pollAMMVaultTransactionsLoop(u, tx, outcome) ==
    /\ u.pc = "ammTx"
    /\ processAMMTransaction(VAULT_AMM, Head(u.queue), tx, outcome)
    /\ processedTxs' = processedTxs \cup {Head(u.queue)}
    /\ IF Len(u.queue) > 1
         THEN /\ ticks' = Continue(u, SetToBag({[u EXCEPT !.queue = Tail(@)]}))
              /\ UNCHANGED lastAMMSignature
         ELSE /\ lastAMMSignature' = u.head
              /\ ticks' = Continue(u, AfterAMM)
    /\ UNCHANGED << lifeVars, tokenInfo, lastBCSignature >>

\* the state after the constructor, without a history file
Init ==
    /\ running = FALSE
    /\ pollTimer = FALSE
    /\ timers = 0
    /\ starting = 0
    /\ startCalls = 0
    /\ ticks = EmptyBag
    /\ tokenInfo = None
    /\ lastBCSignature = NULL
    /\ lastAMMSignature = NULL
    /\ processedTxs = {}
    /\ bcFees = 0
    /\ ammFees = 0
    /\ historyLog = None
    /\ file = None
    /\ callbacks = NoCallbacks
    /\ tamper = None
    /\ savedFrom = None
    /\ reloaded = None
    /\ lastTx = None
    /\ lastEvent = None
    /\ prev = None
    /\ observed = None
    /\ perAccount = NothingObserved
    /\ lastCall = None
    /\ verified = None
    /\ checked = None
    /\ lastBCBalance = 0
    /\ lastAMMBalance = 0
    /\ polled = None

ghostVars == << ledgerVars, extractVars, cursorGhost, callGhost,
                    cliVars, balanceVars >>

\* the callbacks of the caller return and the history file can be written
\* while the daemon with its overlapping ticks runs
OutcomesMain == {"ok"}

\* the data source returns a fee transaction only while the bound allows
\* another fee event
WithinBound(ev) ==
    ev # NoEvent =>
        /\ callbacks.onFeeDetected < MaxEntries
        /\ historyLog # None => Len(historyLog[1].entries) < MaxEntries

Start == startCalls < MaxStartCalls /\ start /\ UNCHANGED ghostVars

StartResume ==
    \E snapshot \in Snapshots : startResume(snapshot, TRUE) /\ UNCHANGED ghostVars

Stop == stop(TRUE) /\ UNCHANGED ghostVars

ProcessRestart == processRestart /\ UNCHANGED ghostVars

TimerFire == BagCardinality(ticks) < MaxTicks /\ poll /\ UNCHANGED ghostVars

CheckMigration ==
    \E u \in BagToSet(ticks), snapshot \in Snapshots, outcome \in OutcomesMain :
        checkMigration(u, snapshot, outcome) /\ UNCHANGED ghostVars

PollBC ==
    \E u \in BagToSet(ticks), result \in MainResults :
        pollVaultTransactions(u, result) /\ UNCHANGED ghostVars

ProcessBC ==
    \E u \in BagToSet(ticks), tx \in TxMain, outcome \in OutcomesMain :
        /\ u.pc = "bcTx"
        /\ WithinBound(ExtractBC("BC", VAULT_BC, Head(u.queue), tx))
        /\ pollVaultTransactionsLoop(u, tx, outcome)
        /\ UNCHANGED ghostVars

PollAMM ==
    \E u \in BagToSet(ticks), result \in MainResults :
        pollAMMVaultTransactions(u, result) /\ UNCHANGED ghostVars

ProcessAMM ==
    \E u \in BagToSet(ticks), tx \in TxMain, outcome \in OutcomesMain :
        /\ u.pc = "ammTx"
        /\ WithinBound(ExtractAMM(VAULT_AMM, Head(u.queue), tx))
        /\ pollAMMVaultTransactionsLoop(u, tx, outcome)
        /\ UNCHANGED ghostVars

Next ==
    \/ Start
    \/ StartResume
    \/ Stop
    \/ ProcessRestart
    \/ TimerFire
    \/ CheckMigration
    \/ PollBC
    \/ ProcessBC
    \/ PollAMM
    \/ ProcessAMM

Spec == Init /\ [][Next]_vars

\* ------------------------------------------------------------------------
\* The signature cursor on its own: a started, migrated daemon in any state
\* of its cursors runs one tick, and the poll of each account is watched
\* ------------------------------------------------------------------------

InitCursor ==
    /\ running = TRUE
    /\ pollTimer = TRUE
    /\ timers = 1
    /\ starting = 0
    /\ startCalls = 1
    /\ ticks = EmptyBag
    /\ tokenInfo = Some([migrated |-> TRUE])
    /\ lastBCSignature \in Sigs \cup {NULL}
    /\ lastAMMSignature \in Sigs \cup {NULL}
    /\ processedTxs \in SUBSET Sigs
    /\ bcFees = 0
    /\ ammFees = 0
    /\ historyLog = Some(saveHistory(NewHistoryLog(TRUE), 0, 0))
    /\ file = Some(JSON_stringify(historyLog[1]))
    /\ callbacks = NoCallbacks
    /\ tamper = None
    /\ savedFrom = None
    /\ reloaded = None
    /\ lastTx = None
    /\ lastEvent = None
    /\ prev = None
    /\ observed = None
    /\ perAccount = NothingObserved
    /\ lastCall = None
    /\ verified = None
    /\ checked = None
    /\ lastBCBalance = 0
    /\ lastAMMBalance = 0
    /\ polled = None

CursorTimerFire ==
    /\ ticks = EmptyBag
    /\ observed = None
    /\ poll
    /\ UNCHANGED ghostVars

CursorPollBC ==
    \E u \in BagToSet(ticks), result \in SignatureResults :
        /\ pollVaultTransactions(u, result)
        /\ lastCall' = Call("pollVaultTransactions",
                            IF result.ok THEN "ok" ELSE "error", NULL, "none")
        /\ observed' = Some([vault |-> "BC", ok |-> result.ok, list |-> result.list,
                             lastSeen |-> lastBCSignature, processed |-> processedTxs,
                             bcFees |-> bcFees, ammFees |-> ammFees,
                             historyLog |-> historyLog, yielded |-> << >>,
                             finished |-> \A v \in BagToSet(ticks') : v.pc # "bcTx"])
        /\ UNCHANGED << ledgerVars, extractVars, cliVars,
                        balanceVars, perAccount >>

CursorProcessBC ==
    \E u \in BagToSet(ticks), tx \in TxFaults, outcome \in Outcomes :
        /\ pollVaultTransactionsLoop(u, tx, outcome)
        /\ LET ev == ExtractBC("BC", VAULT_BC, Head(u.queue), tx) IN
           lastCall' = Call("processTransaction",
                            IF tx.kind = "tx" THEN "ok" ELSE tx.kind,
                            Head(u.queue),
                            WriteOf(ev # NoEvent /\ outcome # "onFeeDetectedThrows",
                                    outcome # "writeFails"))
        /\ observed' = Some([observed[1] EXCEPT
                               !.yielded = Append(@, Head(u.queue)),
                               !.finished = \A v \in BagToSet(ticks') : v.pc # "bcTx"])
        /\ UNCHANGED << ledgerVars, extractVars, cliVars,
                        balanceVars, perAccount >>

CursorPollAMM ==
    \E u \in BagToSet(ticks), result \in SignatureResults :
        /\ pollAMMVaultTransactions(u, result)
        /\ lastCall' = Call("pollAMMVaultTransactions",
                            IF result.ok THEN "ok" ELSE "error", NULL, "none")
        /\ observed' = Some([vault |-> "AMM", ok |-> result.ok, list |-> result.list,
                             lastSeen |-> lastAMMSignature, processed |-> processedTxs,
                             bcFees |-> bcFees, ammFees |-> ammFees,
                             historyLog |-> historyLog, yielded |-> << >>,
                             finished |-> \A v \in BagToSet(ticks') : v.pc # "ammTx"])
        /\ UNCHANGED << ledgerVars, extractVars, cliVars,
                        balanceVars, perAccount >>

CursorProcessAMM ==
    \E u \in BagToSet(ticks), tx \in TxFaults, outcome \in Outcomes :
        /\ pollAMMVaultTransactionsLoop(u, tx, outcome)
        /\ LET ev == ExtractAMM(VAULT_AMM, Head(u.queue), tx) IN
           lastCall' = Call("processAMMTransaction",
                            IF tx.kind = "tx" THEN "ok" ELSE tx.kind,
                            Head(u.queue),
                            WriteOf(ev # NoEvent /\ outcome # "onFeeDetectedThrows",
                                    outcome # "writeFails"))
        /\ observed' = Some([observed[1] EXCEPT
                               !.yielded = Append(@, Head(u.queue)),
                               !.finished = \A v \in BagToSet(ticks') : v.pc # "ammTx"])
        /\ UNCHANGED << ledgerVars, extractVars, cliVars,
                        balanceVars, perAccount >>

NextCursor ==
    \/ CursorTimerFire
    \/ CursorPollBC
    \/ CursorProcessBC
    \/ CursorPollAMM
    \/ CursorProcessAMM

SpecCursor == InitCursor /\ [][NextCursor]_vars

\* ------------------------------------------------------------------------
\* The two accounts over a run: a started, migrated daemon with a fresh
\* ledger runs tick after tick, one at a time, and what each account was
\* shown and handed is recorded
\* ------------------------------------------------------------------------

InitAccounts ==
    /\ running = TRUE
    /\ pollTimer = TRUE
    /\ timers = 1
    /\ starting = 0
    /\ startCalls = 1
    /\ ticks = EmptyBag
    /\ tokenInfo = Some([migrated |-> TRUE])
    /\ lastBCSignature = NULL
    /\ lastAMMSignature = NULL
    /\ processedTxs = {}
    /\ bcFees = 0
    /\ ammFees = 0
    /\ historyLog = Some(saveHistory(NewHistoryLog(TRUE), 0, 0))
    /\ file = Some(JSON_stringify(historyLog[1]))
    /\ callbacks = NoCallbacks
    /\ tamper = None
    /\ savedFrom = None
    /\ reloaded = None
    /\ lastTx = None
    /\ lastEvent = None
    /\ prev = None
    /\ observed = None
    /\ perAccount = NothingObserved
    /\ lastCall = None
    /\ verified = None
    /\ checked = None
    /\ lastBCBalance = 0
    /\ lastAMMBalance = 0
    /\ polled = None

\* the signatures of a list
Listed(list) == { list[i] : i \in 1..Len(list) }

\* the poll of an account got its first non-empty list
FirstObserved(vault, result, lastSeen) ==
    IF result.ok /\ Len(result.list) > 0 /\ lastSeen = NULL
      THEN [perAccount EXCEPT !.first[vault] = Listed(result.list)]
      ELSE perAccount

AccountsTimerFire ==
    /\ ticks = EmptyBag
    /\ poll
    /\ UNCHANGED ghostVars

AccountsPollBC ==
    \E u \in BagToSet(ticks), result \in MainResults :
        /\ pollVaultTransactions(u, result)
        /\ observed' = Some([vault |-> "BC", ok |-> result.ok, list |-> result.list,
                             lastSeen |-> lastBCSignature, processed |-> processedTxs,
                             bcFees |-> bcFees, ammFees |-> ammFees,
                             historyLog |-> historyLog, yielded |-> << >>,
                             finished |-> \A v \in BagToSet(ticks') : v.pc # "bcTx"])
        /\ perAccount' = FirstObserved("BC", result, lastBCSignature)
        /\ UNCHANGED << ledgerVars, extractVars, callGhost,
                    cliVars, balanceVars >>

AccountsProcessBC ==
    \E u \in BagToSet(ticks), tx \in TxMain :
        /\ u.pc = "bcTx"
        /\ WithinBound(ExtractBC("BC", VAULT_BC, Head(u.queue), tx))
        /\ pollVaultTransactionsLoop(u, tx, "ok")
        /\ observed' = Some([observed[1] EXCEPT
                               !.yielded = Append(@, Head(u.queue)),
                               !.finished = \A v \in BagToSet(ticks') : v.pc # "bcTx"])
        /\ perAccount' = [perAccount EXCEPT !.handled.BC = @ \cup {Head(u.queue)}]
        /\ UNCHANGED << ledgerVars, extractVars, callGhost,
                    cliVars, balanceVars >>

AccountsPollAMM ==
    \E u \in BagToSet(ticks), result \in MainResults :
        /\ pollAMMVaultTransactions(u, result)
        /\ observed' = Some([vault |-> "AMM", ok |-> result.ok, list |-> result.list,
                             lastSeen |-> lastAMMSignature, processed |-> processedTxs,
                             bcFees |-> bcFees, ammFees |-> ammFees,
                             historyLog |-> historyLog, yielded |-> << >>,
                             finished |-> \A v \in BagToSet(ticks') : v.pc # "ammTx"])
        /\ perAccount' = FirstObserved("AMM", result, lastAMMSignature)
        /\ UNCHANGED << ledgerVars, extractVars, callGhost,
                    cliVars, balanceVars >>

AccountsProcessAMM ==
    \E u \in BagToSet(ticks), tx \in TxMain :
        /\ u.pc = "ammTx"
        /\ WithinBound(ExtractAMM(VAULT_AMM, Head(u.queue), tx))
        /\ pollAMMVaultTransactionsLoop(u, tx, "ok")
        /\ observed' = Some([observed[1] EXCEPT
                               !.yielded = Append(@, Head(u.queue)),
                               !.finished = \A v \in BagToSet(ticks') : v.pc # "ammTx"])
        /\ perAccount' = [perAccount EXCEPT !.handled.AMM = @ \cup {Head(u.queue)}]
        /\ UNCHANGED << ledgerVars, extractVars, callGhost,
                    cliVars, balanceVars >>

NextAccounts ==
    \/ AccountsTimerFire
    \/ AccountsPollBC
    \/ AccountsProcessBC
    \/ AccountsPollAMM
    \/ AccountsProcessAMM

SpecAccounts == InitAccounts /\ [][NextAccounts]_vars

\* ------------------------------------------------------------------------
\* The extractor on its own: a started, migrated daemon, its ledger fresh or
\* loaded with one earlier entry, processes transaction records
\* ------------------------------------------------------------------------

\* transactions processed in a run of the extractor specification
MaxExtracts == 1

\* a native-vault fee recorded by an earlier run and loaded at start
EarlierFee ==
    [eventType |-> "FEE", vaultType |-> "BC", vault |-> VAULT_BC,
     amount |-> Dec(1000000), balanceBefore |-> Dec(0),
     balanceAfter |-> Dec(1000000), slot |-> 5, timestamp |-> 1000,
     txSignature |-> "S4"]

LoadedLedger ==
    saveHistory(PushEntry(NewHistoryLog(TRUE),
                          createHistoryEntry(NewHistoryLog(TRUE), EarlierFee)),
                1000000, 0)

InitExtract ==
    /\ running = TRUE
    /\ pollTimer = TRUE
    /\ timers = 1
    /\ starting = 0
    /\ startCalls = 1
    /\ ticks = EmptyBag
    /\ observed = None
    /\ perAccount = NothingObserved
    /\ lastCall = None
    /\ verified = None
    /\ checked = None
    /\ lastBCBalance = 0
    /\ lastAMMBalance = 0
    /\ polled = None
    /\ tokenInfo = Some([migrated |-> TRUE])
    /\ lastBCSignature = NULL
    /\ lastAMMSignature = NULL
    /\ \/ /\ historyLog = Some(saveHistory(NewHistoryLog(TRUE), 0, 0))
          /\ processedTxs = {}
          /\ bcFees = 0
       \/ /\ historyLog = Some(LoadedLedger)
          /\ processedTxs = {"S4"}
          /\ bcFees = 1000000
    /\ ammFees = 0
    /\ file = Some(JSON_stringify(historyLog[1]))
    /\ callbacks = NoCallbacks
    /\ tamper = None
    /\ savedFrom = None
    /\ reloaded = None
    /\ lastTx = None
    /\ lastEvent = None
    /\ prev = None

Steps == IF prev = None THEN 0 ELSE prev[1].step

Remember(vaultType, sig, tx, outcome, ev) ==
    /\ lastTx' = Some([vaultType |-> vaultType, sig |-> sig, tx |-> tx,
                       outcome |-> IF ev = NoEvent THEN "ok" ELSE outcome])
    /\ lastEvent' = ev
    /\ prev' = Some([step |-> Steps + 1, bcFees |-> bcFees, ammFees |-> ammFees,
                     historyLog |-> historyLog, file |-> file,
                     callbacks |-> callbacks])

ExtractStepBC(sig, tx, outcome) ==
    /\ Steps < MaxExtracts
    /\ processTransaction("BC", VAULT_BC, sig, tx, outcome)
    /\ Remember("BC", sig, tx, outcome, ExtractBC("BC", VAULT_BC, sig, tx))
    /\ UNCHANGED << lifeVars, tokenInfo, cursorVars, ticks, ledgerVars,
                    cursorGhost,
                    callGhost, cliVars, balanceVars >>

ExtractStepAMM(sig, tx, outcome) ==
    /\ Steps < MaxExtracts
    /\ processAMMTransaction(VAULT_AMM, sig, tx, outcome)
    /\ Remember("AMM", sig, tx, outcome, ExtractAMM(VAULT_AMM, sig, tx))
    /\ UNCHANGED << lifeVars, tokenInfo, cursorVars, ticks, ledgerVars,
                    cursorGhost,
                    callGhost, cliVars, balanceVars >>

NextExtract ==
    \E sig \in {"S3"}, tx \in Transactions, outcome \in Outcomes :
        \/ ExtractStepBC(sig, tx, outcome)
        \/ ExtractStepAMM(sig, tx, outcome)

SpecExtract == InitExtract /\ [][NextExtract]_vars

\* ------------------------------------------------------------------------
\* The daemon with failing collaborators: data-source calls fail, callbacks
\* throw, writes of the history file throw, the process crashes, and a
\* history file may exist before the first start.  One poll() is in progress
\* at a time and one start() at a time here; stop() and start() still
\* interleave with the poll() in progress.
\* ------------------------------------------------------------------------

\* a ledger file whose only entry has an amount that BigInt cannot read
UnrestorableLedger ==
    saveHistory(PushEntry(NewHistoryLog(TRUE),
                          createHistoryEntry(NewHistoryLog(TRUE),
                              [EarlierFee EXCEPT !.amount = NotDecimal])),
                0, 0)

\* history files left by an earlier run
ValidFiles == { Some(JSON_stringify(LoadedLedger)) }

\* a valid ledger that a daemon tracking another instrument has written
ForeignLedger ==
    LET fresh == [NewHistoryLog(TRUE) EXCEPT
                    !.mint = "otherMint", !.symbol = "OTHER",
                    !.bondingCurve = "otherBondingCurve",
                    !.creator = "otherCreator",
                    !.creatorVaultBC = "otherVaultBC",
                    !.creatorVaultAMM = "otherVaultAMM",
                    !.pool = "otherPool"]
        fee == [EarlierFee EXCEPT !.vault = "otherVaultBC"]
    IN saveHistory(PushEntry(fresh, createHistoryEntry(fresh, fee)), 1000000, 0)

\* history files of any origin
ExistingFiles ==
    ValidFiles \cup { Some(JSON_stringify(UnrestorableLedger)), Some(Garbage),
                      Some(JSON_stringify(ForeignLedger)) }

\* getAccountInfo returned an account that deserializeBondingCurve decodes
Usable(snapshot) == IF snapshot.kind = "account" THEN "ok" ELSE "unusable"

InitFaults ==
    /\ running = FALSE
    /\ pollTimer = FALSE
    /\ timers = 0
    /\ starting = 0
    /\ startCalls = 0
    /\ ticks = EmptyBag
    /\ tokenInfo = None
    /\ lastBCSignature = NULL
    /\ lastAMMSignature = NULL
    /\ processedTxs = {}
    /\ bcFees = 0
    /\ ammFees = 0
    /\ historyLog = None
    /\ file \in {None} \cup ValidFiles
    /\ callbacks = NoCallbacks
    /\ tamper = None
    /\ savedFrom = None
    /\ reloaded = None
    /\ lastTx = None
    /\ lastEvent = None
    /\ prev = None
    /\ observed = None
    /\ perAccount = NothingObserved
    /\ lastCall = None
    /\ verified = None
    /\ checked = None
    /\ lastBCBalance = 0
    /\ lastAMMBalance = 0
    /\ polled = None

FaultGhost == << ledgerVars, extractVars, cursorGhost, cliVars, balanceVars >>

FStart ==
    /\ startCalls < MaxStartCalls
    /\ starting = 0
    /\ start
    /\ lastCall' = Call("start", "ok", NULL, "none")
    /\ UNCHANGED FaultGhost

FStartResume ==
    \E snapshot \in Snapshots, written \in BOOLEAN :
        /\ (snapshot.kind # "account" \/ ~CreatesFresh) => written
        /\ startResume(snapshot, written)
        /\ lastCall' = Call("initializeToken", Usable(snapshot), NULL,
                            WriteOf(snapshot.kind = "account" /\ CreatesFresh,
                                    written))
        /\ UNCHANGED FaultGhost

FStop ==
    \E written \in BOOLEAN :
        /\ historyLog = None => written
        /\ stop(written)
        /\ lastCall' = Call("stop", "ok", NULL, WriteOf(historyLog # None, written))
        /\ UNCHANGED FaultGhost

FProcessRestart ==
    /\ processRestart
    /\ lastCall' = Call("processRestart", "ok", NULL, "none")
    /\ UNCHANGED FaultGhost

FCrashInWrite ==
    /\ crashInWrite
    /\ lastCall' = Call("crashInWrite", "ok", NULL, "failed")
    /\ UNCHANGED FaultGhost

FTimerFire ==
    /\ ticks = EmptyBag
    /\ poll
    /\ lastCall' = Call("poll", "ok", NULL, "none")
    /\ UNCHANGED FaultGhost

FCheckMigration ==
    \E u \in BagToSet(ticks), snapshot \in Snapshots,
       outcome \in {"ok", "writeFails"} :
        LET latches == /\ snapshot.kind = "account"
                       /\ snapshot.complete
                       /\ ~tokenInfo[1].migrated
                       /\ historyLog # None
        IN /\ ~latches => outcome = "ok"
           /\ checkMigration(u, snapshot, outcome)
           /\ lastCall' = Call("checkMigration", Usable(snapshot), NULL,
                               WriteOf(latches, outcome = "ok"))
           /\ UNCHANGED FaultGhost

FPollBC ==
    \E u \in BagToSet(ticks), result \in MainResults :
        /\ pollVaultTransactions(u, result)
        /\ lastCall' = Call("pollVaultTransactions",
                            IF result.ok THEN "ok" ELSE "error", NULL, "none")
        /\ UNCHANGED FaultGhost

FProcessBC ==
    \E u \in BagToSet(ticks), tx \in TxFaults, outcome \in Outcomes :
        /\ u.pc = "bcTx"
        /\ LET ev == ExtractBC("BC", VAULT_BC, Head(u.queue), tx) IN
           /\ WithinBound(ev)
           /\ ev = NoEvent => outcome = "ok"
           /\ lastCall' = Call("processTransaction",
                               IF tx.kind = "tx" THEN "ok" ELSE tx.kind,
                               Head(u.queue),
                               WriteOf(/\ ev # NoEvent
                                       /\ outcome # "onFeeDetectedThrows"
                                       /\ historyLog # None,
                                       outcome # "writeFails"))
        /\ pollVaultTransactionsLoop(u, tx, outcome)
        /\ UNCHANGED FaultGhost

FPollAMM ==
    \E u \in BagToSet(ticks), result \in MainResults :
        /\ pollAMMVaultTransactions(u, result)
        /\ lastCall' = Call("pollAMMVaultTransactions",
                            IF result.ok THEN "ok" ELSE "error", NULL, "none")
        /\ UNCHANGED FaultGhost

FProcessAMM ==
    \E u \in BagToSet(ticks), tx \in TxFaults, outcome \in Outcomes :
        /\ u.pc = "ammTx"
        /\ LET ev == ExtractAMM(VAULT_AMM, Head(u.queue), tx) IN
           /\ WithinBound(ev)
           /\ ev = NoEvent => outcome = "ok"
           /\ lastCall' = Call("processAMMTransaction",
                               IF tx.kind = "tx" THEN "ok" ELSE tx.kind,
                               Head(u.queue),
                               WriteOf(/\ ev # NoEvent
                                       /\ outcome # "onFeeDetectedThrows"
                                       /\ historyLog # None,
                                       outcome # "writeFails"))
        /\ pollAMMVaultTransactionsLoop(u, tx, outcome)
        /\ UNCHANGED FaultGhost

NextFaults ==
    \/ FStart
    \/ FStartResume
    \/ FStop
    \/ FProcessRestart
    \/ FCrashInWrite
    \/ FTimerFire
    \/ FCheckMigration
    \/ FPollBC
    \/ FProcessBC
    \/ FPollAMM
    \/ FProcessAMM

SpecFaults == InitFaults /\ [][NextFaults]_vars

\* ------------------------------------------------------------------------
\* Starts and stops of the daemon against a history file of any origin
\* ------------------------------------------------------------------------

InitExisting ==
    /\ running = FALSE
    /\ pollTimer = FALSE
    /\ timers = 0
    /\ starting = 0
    /\ startCalls = 0
    /\ ticks = EmptyBag
    /\ tokenInfo = None
    /\ lastBCSignature = NULL
    /\ lastAMMSignature = NULL
    /\ processedTxs = {}
    /\ bcFees = 0
    /\ ammFees = 0
    /\ historyLog = None
    /\ file \in {None} \cup ExistingFiles
    /\ callbacks = NoCallbacks
    /\ tamper = None
    /\ savedFrom = None
    /\ reloaded = None
    /\ lastTx = None
    /\ lastEvent = None
    /\ prev = None
    /\ observed = None
    /\ perAccount = NothingObserved
    /\ lastCall = None
    /\ verified = None
    /\ checked = None
    /\ lastBCBalance = 0
    /\ lastAMMBalance = 0
    /\ polled = None

NextExisting ==
    \/ FStart
    \/ FStartResume
    \/ FStop
    \/ FProcessRestart
    \/ FCrashInWrite

SpecExisting == InitExisting /\ [][NextExisting]_vars

\* the argument of verifyHistoryChain after the call: the entries the loop
\* has destructured, the others as they were
verifyHistoryChainArgument(log) ==
    LET r == verifyHistoryChain(log)
        reached == IF r.valid THEN Len(log.entries)
                   ELSE IF r.error = << "Hash mismatch" >> THEN r.entryIndex + 1
                   ELSE r.entryIndex
    IN [log EXCEPT !.entries =
          [i \in 1..Len(log.entries) |->
             IF i <= reached THEN Destructured(log.entries[i])
             ELSE log.entries[i]]]

\* ------------------------------------------------------------------------
\* The ledger on its own: a run appends candidate events to a fresh ledger,
\* may then change one stored field, and finally writes the ledger and
\* reads it back
\* ------------------------------------------------------------------------

\* candidate events handed to createHistoryEntry
Candidates ==
    { [eventType |-> "FEE", vaultType |-> "BC", vault |-> VAULT_BC,
       amount |-> Dec(1000000), balanceBefore |-> Dec(0),
       balanceAfter |-> Dec(1000000), slot |-> 1, timestamp |-> 1000,
       txSignature |-> "S3"],
      [eventType |-> "FEE", vaultType |-> "AMM", vault |-> VAULT_AMM,
       amount |-> Dec(500000), balanceBefore |-> Dec(1000000),
       balanceAfter |-> Dec(1500000), slot |-> 2, timestamp |-> 2000,
       txSignature |-> "S4"],
      [eventType |-> "CLAIM", vaultType |-> "BC", vault |-> VAULT_BC,
       amount |-> Dec(-1000000), balanceBefore |-> Dec(1000000),
       balanceAfter |-> Dec(0), slot |-> 3, timestamp |-> 0,
       txSignature |-> "S5"] }

EntryFields ==
    {"sequence", "prevHash", "eventType", "vaultType", "vault", "amount",
     "balanceBefore", "balanceAfter", "slot", "timestamp", "date",
     "txSignature", "hash"}

\* values an editor of the file can put into a field
FieldValues(f, entries) ==
    CASE f = "sequence" -> 0..(Len(entries) + 1)
      [] f \in {"prevHash", "hash"} ->
            {GENESIS_HASH, sha256(<< "forged" >>)}
              \cup {entries[i].hash : i \in 1..Len(entries)}
      [] f = "eventType" -> HistoryEventType
      [] f = "vaultType" -> VaultType
      [] f = "vault" -> {VAULT_BC, VAULT_AMM}
      [] f \in {"amount", "balanceBefore", "balanceAfter"} ->
            {Dec(0), Dec(500000), Dec(1000000)}
      [] f = "slot" -> {1, 2}
      [] f = "timestamp" -> {0, 1000}
      [] f = "date" -> {Iso(0), Iso(1000)}
      [] f = "txSignature" -> {"S3", "S4"}

InitLedger ==
    /\ running = FALSE
    /\ pollTimer = FALSE
    /\ timers = 0
    /\ starting = 0
    /\ startCalls = 0
    /\ ticks = EmptyBag
    /\ observed = None
    /\ perAccount = NothingObserved
    /\ lastCall = None
    /\ verified = None
    /\ checked = None
    /\ lastBCBalance = 0
    /\ lastAMMBalance = 0
    /\ polled = None
    /\ tokenInfo = None
    /\ lastBCSignature = NULL
    /\ lastAMMSignature = NULL
    /\ processedTxs = {}
    /\ bcFees = 0
    /\ ammFees = 0
    /\ historyLog = Some(NewHistoryLog(FALSE))
    /\ file = None
    /\ callbacks = NoCallbacks
    /\ tamper = None
    /\ savedFrom = None
    /\ reloaded = None
    /\ lastTx = None
    /\ lastEvent = None
    /\ prev = None

\* append(candidate): createHistoryEntry and entries.push
LedgerAppend(c) ==
    /\ tamper = None
    /\ savedFrom = None
    /\ Len(historyLog[1].entries) < MaxLen
    /\ historyLog' = Some(PushEntry(historyLog[1],
                                    createHistoryEntry(historyLog[1], c)))
    /\ UNCHANGED << lifeVars, tokenInfo, cursorVars, ticks, bcFees, ammFees,
                    file, callbacks, ledgerVars, extractVars, cursorGhost,
                    callGhost, cliVars, balanceVars >>

\* one field of one stored entry is given another value
LedgerTamper(i, f, v) ==
    /\ tamper = None
    /\ savedFrom = None
    /\ v # historyLog[1].entries[i][f]
    /\ historyLog' = Some([historyLog[1] EXCEPT !.entries[i][f] = v])
    /\ tamper' = Some(<< i, f >>)
    /\ UNCHANGED << lifeVars, tokenInfo, cursorVars, ticks, bcFees, ammFees,
                    file, callbacks, savedFrom, reloaded, extractVars,
                    cursorGhost,
                    callGhost, cliVars, balanceVars >>

\* saveHistory: the summary update and fs.writeFileSync
LedgerSave ==
    /\ savedFrom = None
    /\ historyLog' = Some(saveHistory(historyLog[1], bcFees, ammFees))
    /\ file' = Some(JSON_stringify(historyLog'[1]))
    /\ savedFrom' = historyLog
    /\ reloaded' = None
    /\ UNCHANGED << lifeVars, tokenInfo, cursorVars, ticks, bcFees, ammFees,
                    callbacks, tamper, extractVars, cursorGhost,
                    callGhost, cliVars, balanceVars >>

\* loadHistoryLog of the file written last
LedgerLoad ==
    /\ file # None
    /\ reloaded = None
    /\ reloaded' = Some(loadHistoryLog(file[1]))
    /\ UNCHANGED << daemonVars, tamper, savedFrom, extractVars, cursorGhost, callGhost,
                    cliVars, balanceVars >>

\* verifyHistoryChain(log) on the ledger in memory
LedgerVerify ==
    /\ checked = None
    /\ lastBCBalance = 0
    /\ lastAMMBalance = 0
    /\ polled = None
    /\ checked' = Some([log |-> historyLog[1],
                        result |-> verifyHistoryChain(historyLog[1])])
    /\ historyLog' = Some(verifyHistoryChainArgument(historyLog[1]))
    /\ UNCHANGED << lifeVars, tokenInfo, cursorVars, ticks, bcFees, ammFees,
                    file, callbacks, ledgerVars, extractVars, cursorGhost,
                    callGhost, verified, balanceVars >>

NextLedger ==
    \/ \E c \in Candidates : LedgerAppend(c)
    \/ \E i \in 1..Len(historyLog[1].entries) :
         \E f \in EntryFields :
           \E v \in FieldValues(f, historyLog[1].entries) : LedgerTamper(i, f, v)
    \/ LedgerSave
    \/ LedgerLoad
    \/ LedgerVerify

SpecLedger == InitLedger /\ [][NextLedger]_vars

\* ------------------------------------------------------------------------
\* The balance-polling daemon (src/daemon.ts, lines 256-656): a started
\* daemon, migrated or not, with a fresh ledger diffs the balance of each
\* vault on its timer.
\* Its ledger has no pool field and its entries no txSignature.
\* ------------------------------------------------------------------------

\* computeEntryHash of the balance-polling daemon
computeEntryHashBalance(entry) ==
    sha256(<< Dec(entry.sequence), entry.prevHash, entry.eventType,
              entry.vaultType, entry.vault, entry.amount,
              entry.balanceBefore, entry.balanceAfter,
              Dec(entry.slot), Dec(entry.timestamp) >>)

\* createHistoryEntry of the balance-polling daemon
createHistoryEntryBalance(log, eventType, vaultType, vault, amount, balanceBefore, balanceAfter, slot, timestamp) ==
    LET entryWithoutHash ==
          [sequence |-> Len(log.entries) + 1,
           prevHash |-> IF Len(log.entries) > 0
                          THEN log.entries[Len(log.entries)].hash
                          ELSE GENESIS_HASH,
           eventType |-> eventType, vaultType |-> vaultType, vault |-> vault,
           amount |-> amount, balanceBefore |-> balanceBefore,
           balanceAfter |-> balanceAfter, slot |-> slot,
           timestamp |-> timestamp, date |-> Iso(timestamp)]
    IN [f \in DOMAIN entryWithoutHash \cup {"hash"} |->
           IF f = "hash" THEN computeEntryHashBalance(entryWithoutHash)
                         ELSE entryWithoutHash[f]]

\* the fresh ledger of initializeHistory of the balance-polling daemon
NewBalanceHistoryLog(migrated) ==
    [f \in DOMAIN NewHistoryLog(migrated) \ {"pool"} |->
        NewHistoryLog(migrated)[f]]

\* JSON.stringify of that ledger
JSON_stringifyBalance(log) ==
    [f \in DOMAIN log |->
        IF f = "entries"
          THEN [i \in 1..Len(log.entries) |->
                  [g \in DOMAIN log.entries[i] |->
                     IF g \in {"sequence", "slot", "timestamp"}
                       THEN JNumber(log.entries[i][g])
                       ELSE JString(log.entries[i][g])]]
        ELSE IF f = "migrated" THEN JBool(log[f])
        ELSE IF f = "entryCount" THEN JNumber(log[f])
        ELSE JString(log[f])]

\* lamports a vault can hold
Balances == {0, 1000000, 1500000}

\* getBalance returned a balance, or getSlot or getBalance threw
BalanceResults ==
    { [ok |-> TRUE, balance |-> b] : b \in Balances }
      \cup { [ok |-> FALSE, balance |-> 0] }

\* handleBalanceChange throws: onFeeDetected does, or the write of saveHistory
HandleThrows(eventType, outcome) ==
    \/ eventType = "FEE" /\ outcome = "onFeeDetectedThrows"
    \/ historyLog # None /\ outcome = "writeFails"

\* handleBalanceChange(eventType, vaultType, vault, delta, balanceBefore,
\* balanceAfter, slot, timestamp)
handleBalanceChange(eventType, vaultType, vault, delta, balanceBefore, balanceAfter, slot, timestamp, outcome) ==
    LET absDelta == IF delta < 0 THEN -delta ELSE delta
        bc == IF eventType = "FEE" /\ vaultType = "BC"
                THEN bcFees + absDelta ELSE bcFees
        amm == IF eventType = "FEE" /\ vaultType # "BC"
                 THEN ammFees + absDelta ELSE ammFees
        entry == createHistoryEntryBalance(historyLog[1], eventType, vaultType,
                   vault, Dec(delta), Dec(balanceBefore), Dec(balanceAfter),
                   slot, timestamp)
    IN /\ bcFees' = bc
       /\ ammFees' = amm
       /\ IF eventType = "FEE" /\ outcome = "onFeeDetectedThrows"
            THEN /\ callbacks' = [callbacks EXCEPT !.onFeeDetected = @ + 1]
                 /\ UNCHANGED << historyLog, file >>
          ELSE IF historyLog = None
            THEN /\ callbacks' =
                      [callbacks EXCEPT
                         !.onFeeDetected = IF eventType = "FEE" THEN @ + 1 ELSE @]
                 /\ UNCHANGED << historyLog, file >>
          ELSE /\ historyLog' =
                    Some(saveHistory(PushEntry(historyLog[1], entry), bc, amm))
               /\ file' = IF outcome = "writeFails" THEN file
                          ELSE Some(JSON_stringifyBalance(historyLog'[1]))
               /\ callbacks' =
                    [callbacks EXCEPT
                       !.onFeeDetected = IF eventType = "FEE" THEN @ + 1 ELSE @,
                       !.onHistoryEntry =
                          IF outcome = "writeFails" THEN @ ELSE @ + 1]

pollVaultSwapsBalances(vaultType, vault, result, outcome) ==
    LET lastBalance == IF vaultType = "BC" THEN lastBCBalance ELSE lastAMMBalance
        currentBalance == result.balance
        delta == currentBalance - lastBalance
        eventType == IF delta > 0 THEN "FEE" ELSE "CLAIM"
        slotInfo == 7
        timestamp == 1000
    IN IF ~result.ok \/ delta = 0
         THEN UNCHANGED << lastBCBalance, lastAMMBalance, feeVars >>
       ELSE /\ handleBalanceChange(eventType, vaultType, vault, delta,
                                   currentBalance, lastBalance, slotInfo,
                                   timestamp, outcome)
            /\ IF HandleThrows(eventType, outcome)
                 THEN UNCHANGED << lastBCBalance, lastAMMBalance >>
               ELSE IF vaultType = "BC"
                 THEN lastBCBalance' = currentBalance /\ UNCHANGED lastAMMBalance
                 ELSE lastAMMBalance' = currentBalance /\ UNCHANGED lastBCBalance

\* pollVault(vaultType, vault) after getSlot and getBalance returned
pollVault(vaultType, vault, result, outcome) ==
    LET lastBalance == IF vaultType = "BC" THEN lastBCBalance ELSE lastAMMBalance
        currentBalance == result.balance
        delta == currentBalance - lastBalance
        eventType == IF delta > 0 THEN "FEE" ELSE "CLAIM"
        slotInfo == 7
        timestamp == 1000
    IN IF ~result.ok \/ delta = 0
         THEN UNCHANGED << lastBCBalance, lastAMMBalance, feeVars >>
       ELSE /\ handleBalanceChange(eventType, vaultType, vault, delta,
                                   lastBalance, currentBalance, slotInfo,
                                   timestamp, outcome)
            /\ IF HandleThrows(eventType, outcome)
                 THEN UNCHANGED << lastBCBalance, lastAMMBalance >>
               ELSE IF vaultType = "BC"
                 THEN lastBCBalance' = currentBalance /\ UNCHANGED lastAMMBalance
                 ELSE lastAMMBalance' = currentBalance /\ UNCHANGED lastBCBalance

InitBalance ==
    /\ running = TRUE
    /\ pollTimer = TRUE
    /\ timers = 1
    /\ starting = 0
    /\ startCalls = 1
    /\ ticks = EmptyBag
    /\ tokenInfo \in { Some([migrated |-> FALSE]), Some([migrated |-> TRUE]) }
    /\ lastBCSignature = NULL
    /\ lastAMMSignature = NULL
    /\ processedTxs = {}
    /\ bcFees = 0
    /\ ammFees = 0
    /\ historyLog = Some(saveHistory(NewBalanceHistoryLog(tokenInfo[1].migrated), 0, 0))
    /\ file = Some(JSON_stringifyBalance(historyLog[1]))
    /\ callbacks = NoCallbacks
    /\ tamper = None
    /\ savedFrom = None
    /\ reloaded = None
    /\ lastTx = None
    /\ lastEvent = None
    /\ prev = None
    /\ observed = None
    /\ perAccount = NothingObserved
    /\ lastCall = None
    /\ verified = None
    /\ checked = None
    /\ lastBCBalance \in Balances
    /\ lastAMMBalance \in Balances
    /\ polled = [seen |-> [BC |-> lastBCBalance, AMM |-> lastAMMBalance],
                 last |-> None]

\* the data source shows a changed balance only while the bound allows
\* another event; a collaborator that is not called cannot fail
BalanceCase(lastBalance, result, outcome) ==
    IF result.ok /\ result.balance # lastBalance
      THEN /\ Len(historyLog[1].entries) < MaxEntries
           /\ callbacks.onFeeDetected < MaxEntries
           /\ result.balance < lastBalance => outcome # "onFeeDetectedThrows"
      ELSE outcome = "ok"

\* a poll of a vault is watched: the balance it got, the balance the poll
\* before it got, and the totals and the ledger before it
Watched(vaultType, result, outcome) ==
    [seen |-> IF result.ok
                THEN [polled.seen EXCEPT ![vaultType] = result.balance]
                ELSE polled.seen,
     last |-> Some([vaultType |-> vaultType, ok |-> result.ok,
                    current |-> result.balance, seen |-> polled.seen[vaultType],
                    outcome |-> outcome, bcFees |-> bcFees, ammFees |-> ammFees,
                    historyLog |-> historyLog])]

\* checkMigration of the balance-polling daemon after getAccountInfo
\* returned, then poll() up to the awaits of pollVault('BC')
checkMigrationBalance(u, snapshot, outcome) ==
    /\ u.pc = "checkMigrationBalance"
    /\ IF snapshot.kind = "account" /\ snapshot.complete /\ ~tokenInfo[1].migrated
         THEN /\ tokenInfo' = Some([tokenInfo[1] EXCEPT !.migrated = TRUE])
              /\ historyLog' = Some(saveHistory([historyLog[1] EXCEPT !.migrated = TRUE],
                                                bcFees, ammFees))
              /\ file' = IF outcome = "writeFails" THEN file
                         ELSE Some(JSON_stringifyBalance(historyLog'[1]))
              /\ callbacks' = IF outcome = "writeFails" THEN callbacks
                              ELSE [callbacks EXCEPT !.onMigration = @ + 1]
         ELSE UNCHANGED << tokenInfo, historyLog, file, callbacks >>
    /\ ticks' = Continue(u, SetToBag({Tick("bcBalance")}))
    /\ UNCHANGED << bcFees, ammFees >>

\* the interval timer calls poll(): up to the await of checkMigration, or
\* of pollVault('BC') when the token has migrated
BalanceTimerFire ==
    /\ running
    /\ ticks = EmptyBag
    /\ ticks' = SetToBag({Tick(IF tokenInfo[1].migrated
                                 THEN "bcBalance" ELSE "checkMigrationBalance")})
    /\ UNCHANGED << lifeVars, tokenInfo, cursorVars, feeVars, ledgerVars,
                    extractVars, cursorGhost, callGhost, cliVars,
                    balanceVars >>

BalanceCheckMigration ==
    \E u \in BagToSet(ticks), snapshot \in Snapshots, outcome \in {"ok", "writeFails"} :
        /\ (outcome = "writeFails") => (snapshot.kind = "account" /\ snapshot.complete)
        /\ checkMigrationBalance(u, snapshot, outcome)
        /\ UNCHANGED << lifeVars, cursorVars, ledgerVars, extractVars,
                        cursorGhost, callGhost, cliVars, balanceVars >>

BalancePollBC ==
    \E u \in BagToSet(ticks), result \in BalanceResults, outcome \in Outcomes :
        /\ u.pc = "bcBalance"
        /\ BalanceCase(lastBCBalance, result, outcome)
        /\ pollVault("BC", VAULT_BC, result, outcome)
        /\ polled' = Watched("BC", result, outcome)
        /\ ticks' = Continue(u, SetToBag({Tick("ammBalance")}))
        /\ UNCHANGED << lifeVars, tokenInfo, cursorVars, ledgerVars,
                        extractVars, cursorGhost, callGhost, cliVars >>

BalancePollAMM ==
    \E u \in BagToSet(ticks), result \in BalanceResults, outcome \in Outcomes :
        /\ u.pc = "ammBalance"
        /\ BalanceCase(lastAMMBalance, result, outcome)
        /\ pollVault("AMM", VAULT_AMM, result, outcome)
        /\ polled' = Watched("AMM", result, outcome)
        /\ ticks' = Continue(u, EmptyBag)
        /\ UNCHANGED << lifeVars, tokenInfo, cursorVars, ledgerVars,
                        extractVars, cursorGhost, callGhost, cliVars >>

NextBalance ==
    \/ BalanceTimerFire
    \/ BalanceCheckMigration
    \/ BalancePollBC
    \/ BalancePollAMM

SpecBalance == InitBalance /\ [][NextBalance]_vars

\* ------------------------------------------------------------------------
\* Both modes of the daemon: the extractor of the transaction-sourced daemon
\* on transaction records, or the balance-polling daemon on its timer
\* ------------------------------------------------------------------------

InitModes == InitExtract \/ InitBalance

NextModes ==
    \/ polled = None /\ NextExtract
    \/ polled # None /\ NextBalance

SpecModes == InitModes /\ [][NextModes]_vars

\* ------------------------------------------------------------------------
\* The standalone verify command (src/cli.ts), run on a history file of any
\* origin
\* ------------------------------------------------------------------------

\* what the command printed last, and the entry index and error it printed
Report(kind, entryIndex, error) ==
    [kind |-> kind, entryIndex |-> entryIndex, error |-> error]

verifyHistoryFileNeverExits(f) ==
    IF f = None \/ ~Loads(f[1])
      THEN [exit |-> Some(1), throws |-> FALSE,
            report |-> Report("Failed to load file", -1, << >>)]
    ELSE LET result == verifyHistoryChain(loadHistoryLog(f[1]))
         IN [exit |-> None, throws |-> FALSE,
             report |-> IF result.valid
                          THEN Report("VERIFIED SUCCESSFULLY", -1, << >>)
                          ELSE Report("VERIFICATION FAILED", result.entryIndex,
                                      result.error)]

\* verifyHistoryFile(filePath): the process exit it makes (None when it
\* returns or throws), whether it throws, and its report
verifyHistoryFile(f) ==
    IF f = None \/ ~Loads(f[1])
      THEN [exit |-> Some(1), throws |-> FALSE,
            report |-> Report("Failed to load file", -1, << >>)]
    ELSE LET log == loadHistoryLog(f[1])
             result == verifyHistoryChain(log)
             recent == SubSeq(log.entries,
                              IF Len(log.entries) > 5 THEN Len(log.entries) - 4 ELSE 1,
                              Len(log.entries))
         IN IF ~result.valid
              THEN [exit |-> Some(1), throws |-> FALSE,
                    report |-> Report("VERIFICATION FAILED", result.entryIndex,
                                      result.error)]
            ELSE [exit |-> None,
                  throws |-> \E i \in 1..Len(recent) : ~IsDecimal(recent[i].amount),
                  report |-> Report("VERIFIED SUCCESSFULLY", -1, << >>)]

\* main() with --verify, and the catch of main(): the exit code of the process
main(f) ==
    LET run == verifyHistoryFile(f) IN
    [code |-> IF run.exit # None THEN run.exit[1]
              ELSE IF run.throws THEN 1 ELSE 0,
     report |-> IF run.exit = None /\ run.throws
                  THEN Report("Fatal error", -1, << >>) ELSE run.report]

\* events of a ledger, one of them with an amount that is no integer
VerifyCandidates ==
    Candidates \cup
      { [eventType |-> "FEE", vaultType |-> "BC", vault |-> VAULT_BC,
         amount |-> NotDecimal, balanceBefore |-> Dec(0),
         balanceAfter |-> Dec(1000000), slot |-> 1, timestamp |-> 1000,
         txSignature |-> "S3"] }

Extended(log, c) == PushEntry(log, createHistoryEntry(log, c))

\* ledgers as the daemon writes them, of up to two entries
WrittenLedgers ==
    LET empty == NewHistoryLog(FALSE)
        one == { Extended(empty, c) : c \in VerifyCandidates }
        two == { Extended(log, c) : log \in one, c \in VerifyCandidates }
    IN { saveHistory(log, 0, 0) : log \in {empty} \cup one \cup two }

\* the same with one field of one entry given another value
EditedLedgers ==
    UNION { UNION { { [log EXCEPT !.entries[i][f] = v] :
                        v \in FieldValues(f, log.entries) \ {log.entries[i][f]} } :
                    i \in 1..Len(log.entries), f \in EntryFields } :
            log \in WrittenLedgers }

\* the file the command is pointed at: missing, not JSON, or a ledger
VerifyFiles ==
    {None, Some(Garbage)} \cup
      { Some(JSON_stringify(log)) : log \in WrittenLedgers \cup EditedLedgers }

InitVerify ==
    /\ running = FALSE
    /\ pollTimer = FALSE
    /\ timers = 0
    /\ starting = 0
    /\ startCalls = 0
    /\ ticks = EmptyBag
    /\ tokenInfo = None
    /\ lastBCSignature = NULL
    /\ lastAMMSignature = NULL
    /\ processedTxs = {}
    /\ bcFees = 0
    /\ ammFees = 0
    /\ historyLog = None
    /\ file \in VerifyFiles
    /\ callbacks = NoCallbacks
    /\ tamper = None
    /\ savedFrom = None
    /\ reloaded = None
    /\ lastTx = None
    /\ lastEvent = None
    /\ prev = None
    /\ observed = None
    /\ perAccount = NothingObserved
    /\ lastCall = None
    /\ verified = None
    /\ checked = None
    /\ lastBCBalance = 0
    /\ lastAMMBalance = 0
    /\ polled = None

\* the command runs and the process exits
VerifyCommand ==
    /\ verified = None
    /\ verified' = Some(main(file))
    /\ UNCHANGED << daemonVars, ledgerVars, extractVars, cursorGhost, callGhost,
                    checked, balanceVars >>

NextVerify == VerifyCommand

SpecVerify == InitVerify /\ [][NextVerify]_vars

\* ------------------------------------------------------------------------
\* Properties of the ledger
\* ------------------------------------------------------------------------

Entries == historyLog[1].entries

\* C1: a fresh ledger that received n sequential appends has sequence
\* fields 1..n in order, its first prevHash is GENESIS_HASH, every later
\* prevHash is the hash of the entry before it, and verifyHistoryChain
\* returns valid.
C1_AppendsChain ==
    tamper = None =>
        /\ \A i \in 1..Len(Entries) :
              /\ Entries[i].sequence = i
              /\ Entries[i].prevHash =
                    IF i = 1 THEN GENESIS_HASH ELSE Entries[i - 1].hash
        /\ verifyHistoryChain(historyLog[1]) = VerifyValid

C1_Witness == tamper = None /\ Len(Entries) = MaxLen

\* C2 as stated: changing any single field of any single entry of a valid
\* ledger makes verifyHistoryChain return invalid at that entry's index.
C2_AnyFieldDetected ==
    tamper # None =>
        LET r == verifyHistoryChain(historyLog[1]) IN
        r.valid = FALSE /\ r.entryIndex = tamper[1][1] - 1

\* C2 amended: changing any single field other than date is reported as
\* invalid at that entry's index; date is not covered by the commitment and
\* a change of it alone leaves the ledger valid.
C2_CommittedFieldDetected ==
    tamper # None =>
        LET r == verifyHistoryChain(historyLog[1]) IN
        IF tamper[1][2] = "date"
          THEN r = VerifyValid
          ELSE r.valid = FALSE /\ r.entryIndex = tamper[1][1] - 1

C2_Witness ==
    /\ tamper # None
    /\ tamper[1][2] = "txSignature"
    /\ tamper[1][1] = 2
    /\ Len(Entries) = MaxLen
    /\ verifyHistoryChain(historyLog[1]).entryIndex = 1

SequenceHolds(entries, i) == entries[i].sequence = i

LinkageHolds(entries, i) ==
    entries[i].prevHash = IF i = 1 THEN GENESIS_HASH ELSE entries[i - 1].hash

CommitmentHolds(entries, i) == computeEntryHash(entries[i]) = entries[i].hash

AllHold(entries, i) ==
    /\ SequenceHolds(entries, i)
    /\ LinkageHolds(entries, i)
    /\ CommitmentHolds(entries, i)

\* C21: verifyHistoryChain returns valid exactly when the sequence, linkage
\* and commitment checks hold at every index; when it returns invalid,
\* entryIndex is the smallest index at which one of them fails and the error
\* is that of the first failing check in the order sequence, linkage,
\* commitment.
C21_FirstInconsistency ==
    LET r == verifyHistoryChain(historyLog[1])
        bad == { i \in 1..Len(Entries) : ~AllHold(Entries, i) }
    IN /\ r.valid <=> bad = {}
       /\ r.valid => r = VerifyValid
       /\ ~r.valid =>
            LET i == r.entryIndex + 1 IN
            /\ i \in bad
            /\ \A j \in bad : i <= j
            /\ r.error =
                 IF ~SequenceHolds(Entries, i)
                   THEN << "Expected sequence", i, Entries[i].sequence >>
                 ELSE IF ~LinkageHolds(Entries, i)
                   THEN << "prevHash mismatch" >>
                 ELSE << "Hash mismatch" >>

\* the linkage and the commitment of the second entry both fail: the linkage
\* is what is reported
C21_Witness ==
    /\ tamper = Some(<< 2, "prevHash" >>)
    /\ Len(Entries) = MaxLen
    /\ ~LinkageHolds(Entries, 2)
    /\ ~CommitmentHolds(Entries, 2)
    /\ verifyHistoryChain(historyLog[1])
         = VerifyInvalid(1, << "prevHash mismatch" >>)

\* values an editor of the file can put into a summary field
SummaryValues(f) ==
    CASE f = "totalFees" -> {Dec(0), Dec(1000000)}
      [] f = "entryCount" -> {0, 1, 7}
      [] f = "latestHash" -> {GENESIS_HASH, sha256(<< "forged" >>)}
      [] f = "migrated" -> BOOLEAN
      [] OTHER -> {"edited"}

\* C39: the result of verifyHistoryChain depends on the entries only:
\* giving totalFees, entryCount, latestHash or any other summary field of a
\* ledger another value never changes the result, and every prefix of the
\* entries of a valid ledger (its last k entries removed, down to the empty
\* ledger) is reported valid as well.
C39_VerifierReadsEntriesOnly ==
    LET log == historyLog[1]
        n == Len(log.entries)
        r == verifyHistoryChain(log)
    IN /\ \A f \in DOMAIN log \ {"entries"} :
            \A v \in SummaryValues(f) :
                verifyHistoryChain([log EXCEPT ![f] = v]) = r
       /\ r.valid =>
            \A k \in 0..n :
                verifyHistoryChain(
                    [log EXCEPT !.entries = SubSeq(log.entries, 1, n - k)]).valid

\* the verifier was run on a ledger of three entries whose summary fields
\* are still those of the empty ledger, and reported it valid
C39_Witness ==
    /\ checked # None
    /\ checked[1].result.valid
    /\ Len(checked[1].log.entries) = 3
    /\ checked[1].log.entryCount = 0
    /\ checked[1].log.latestHash = GENESIS_HASH
    /\ checked[1].log.totalFees = Dec(0)

\* ------------------------------------------------------------------------
\* Properties of the extractor
\* ------------------------------------------------------------------------

\* the accounts a transaction references
Referenced(tx) ==
    { tx.staticAccountKeys[i] : i \in 1..Len(tx.staticAccountKeys) }
      \cup (IF tx.loadedAddresses = None THEN {}
            ELSE { tx.loadedAddresses[1].writable[i] :
                      i \in 1..Len(tx.loadedAddresses[1].writable) }
                 \cup { tx.loadedAddresses[1].readonly[i] :
                      i \in 1..Len(tx.loadedAddresses[1].readonly) })

\* the token amount a table holds for the fungible vault, 0 without an entry
WatchedTokenAmount(table, tx) ==
    LET keys == AccountKeys(tx)
        hits == { k \in 1..Len(table) :
                    /\ table[k].accountIndex + 1 \in 1..Len(keys)
                    /\ keys[table[k].accountIndex + 1] = VAULT_AMM }
    IN IF hits = {} THEN 0
       ELSE BigIntOf(table[CHOOSE k \in hits : \A j \in hits : k <= j].amount)

LastEntry(log) == log.entries[Len(log.entries)]

\* C6: a transaction that references the instrument and moves the fungible
\* vault's token balance from pre to post > pre yields one FEE event with
\* amount = post - pre, balanceBefore = pre, balanceAfter = post: the AMM
\* fee total grows by it, onFeeDetected is called, and (unless that callback
\* throws) exactly one entry with these fields is appended.
C6_FungibleFeeEvent ==
    (/\ lastTx # None
     /\ lastTx[1].vaultType = "AMM"
     /\ lastTx[1].tx.kind = "tx"
     /\ Referenced(lastTx[1].tx) \cap {MINT, POOL} # {}) =>
        LET tx == lastTx[1].tx
            pre == WatchedTokenAmount(tx.preTokenBalances, tx)
            post == WatchedTokenAmount(tx.postTokenBalances, tx)
            before == prev[1].historyLog[1]
            after == historyLog[1]
        IN post > pre =>
             /\ lastEvent # NoEvent
             /\ lastEvent[1].eventType = "FEE"
             /\ lastEvent[1].amount = Dec(post - pre)
             /\ lastEvent[1].balanceBefore = Dec(pre)
             /\ lastEvent[1].balanceAfter = Dec(post)
             /\ ammFees = prev[1].ammFees + (post - pre)
             /\ bcFees = prev[1].bcFees
             /\ callbacks.onFeeDetected = prev[1].callbacks.onFeeDetected + 1
             /\ lastTx[1].outcome # "onFeeDetectedThrows" =>
                  /\ Len(after.entries) = Len(before.entries) + 1
                  /\ SubSeq(after.entries, 1, Len(before.entries)) = before.entries
                  /\ LastEntry(after).eventType = "FEE"
                  /\ LastEntry(after).vaultType = "AMM"
                  /\ LastEntry(after).vault = VAULT_AMM
                  /\ LastEntry(after).amount = Dec(post - pre)
                  /\ LastEntry(after).balanceBefore = Dec(pre)
                  /\ LastEntry(after).balanceAfter = Dec(post)

C6_Witness ==
    /\ lastTx # None
    /\ lastTx[1].vaultType = "AMM"
    /\ lastTx[1].outcome = "ok"
    /\ lastTx[1].tx.kind = "tx"
    /\ POOL \in Referenced(lastTx[1].tx)
    /\ WatchedTokenAmount(lastTx[1].tx.preTokenBalances, lastTx[1].tx) = 1000000
    /\ WatchedTokenAmount(lastTx[1].tx.postTokenBalances, lastTx[1].tx) = 1500000
    /\ Len(historyLog[1].entries) = 2
    /\ LastEntry(historyLog[1]).amount = Dec(500000)
    /\ LastEntry(historyLog[1]).balanceBefore = Dec(1000000)
    /\ LastEntry(historyLog[1]).balanceAfter = Dec(1500000)

\* the derived state address of a vault's venue
StateAddress(vaultType) == IF vaultType = "BC" THEN BONDING_CURVE ELSE POOL

\* C7: for either watched account, a transaction whose referenced accounts
\* contain neither the mint nor the derived state address (bonding curve
\* for the native vault, pool for the fungible vault) yields no event:
\* ledger, file, fee totals and callback counts stay as they were, whatever
\* balance changes it contains.
C7_IrrelevantNoEvent ==
    (/\ lastTx # None
     /\ lastTx[1].tx.kind = "tx"
     /\ Referenced(lastTx[1].tx)
          \cap {MINT, StateAddress(lastTx[1].vaultType)} = {}) =>
        /\ lastEvent = NoEvent
        /\ bcFees = prev[1].bcFees
        /\ ammFees = prev[1].ammFees
        /\ historyLog = prev[1].historyLog
        /\ file = prev[1].file
        /\ callbacks = prev[1].callbacks

C7_Witness ==
    /\ lastTx # None
    /\ lastTx[1].vaultType = "BC"
    /\ lastTx[1].tx.kind = "tx"
    /\ Referenced(lastTx[1].tx) \cap {MINT, BONDING_CURVE} = {}
    /\ POOL \in Referenced(lastTx[1].tx)
    /\ lastTx[1].tx.preBalances[2] = 1000000
    /\ lastTx[1].tx.postBalances[2] = 1500000
    /\ Len(historyLog[1].entries) = 1
    /\ historyLog = prev[1].historyLog

\* post - pre of the watched account in a transaction record: lamports of
\* the native vault, token amount of the fungible vault; 0 when the record
\* does not hold the account
WatchedDelta(vaultType, tx) ==
    IF vaultType = "BC"
      THEN LET keys == AccountKeys(tx)
               hits == { k \in 1..Len(keys) : keys[k] = VAULT_BC }
               at == CHOOSE k \in hits : \A j \in hits : k <= j
           IN IF hits = {} THEN 0 ELSE tx.postBalances[at] - tx.preBalances[at]
      ELSE WatchedTokenAmount(tx.postTokenBalances, tx)
             - WatchedTokenAmount(tx.preTokenBalances, tx)

\* C29: a transaction whose delta for the watched account is zero or negative
\* produces no entry, no fee-total change and no callback; every entry this
\* mode appends has eventType = FEE and amount > 0.
C29_OnlyPositiveDeltas ==
    lastTx # None =>
        /\ (lastTx[1].tx.kind = "tx"
              /\ WatchedDelta(lastTx[1].vaultType, lastTx[1].tx) <= 0) =>
             /\ lastEvent = NoEvent
             /\ bcFees = prev[1].bcFees
             /\ ammFees = prev[1].ammFees
             /\ historyLog = prev[1].historyLog
             /\ file = prev[1].file
             /\ callbacks = prev[1].callbacks
        /\ \A i \in (Len(prev[1].historyLog[1].entries) + 1)
                      ..Len(historyLog[1].entries) :
             /\ historyLog[1].entries[i].eventType = "FEE"
             /\ BigIntOf(historyLog[1].entries[i].amount) > 0

\* a transaction of the instrument has taken lamports out of the native
\* vault and was handed to its extractor
C29_Witness ==
    /\ lastTx # None
    /\ lastTx[1].vaultType = "BC"
    /\ lastTx[1].tx.kind = "tx"
    /\ MINT \in Referenced(lastTx[1].tx)
    /\ WatchedDelta("BC", lastTx[1].tx) = -500000
    /\ lastEvent = NoEvent
    /\ historyLog = prev[1].historyLog

\* a token-balance table holds an entry for the fungible vault
HoldsWatched(table, tx) ==
    \E k \in 1..Len(table) :
        /\ table[k].accountIndex + 1 \in 1..Len(AccountKeys(tx))
        /\ AccountKeys(tx)[table[k].accountIndex + 1] = VAULT_AMM

\* C31: for the fungible account a missing token-balance entry counts as
\* zero on that side.  A transaction of the instrument whose pre table lacks
\* the watched account and whose post table holds it with amount a > 0 yields
\* a FEE event with balanceBefore = 0, balanceAfter = a, amount = a, and the
\* entry appended for it (the fee-detected callback having returned) carries
\* the same three fields; one whose pre table holds the account and whose
\* post table lacks it yields no event and no entry.
C31_MissingSideIsZero ==
    (/\ lastTx # None
     /\ lastTx[1].vaultType = "AMM"
     /\ lastTx[1].tx.kind = "tx"
     /\ Referenced(lastTx[1].tx) \cap {MINT, POOL} # {}) =>
        LET tx == lastTx[1].tx
            inPre == HoldsWatched(tx.preTokenBalances, tx)
            inPost == HoldsWatched(tx.postTokenBalances, tx)
            a == WatchedTokenAmount(tx.postTokenBalances, tx)
            before == prev[1].historyLog[1]
            after == historyLog[1]
        IN /\ (~inPre /\ inPost /\ a > 0) =>
                /\ lastEvent # NoEvent
                /\ lastEvent[1].eventType = "FEE"
                /\ lastEvent[1].balanceBefore = Dec(0)
                /\ lastEvent[1].balanceAfter = Dec(a)
                /\ lastEvent[1].amount = Dec(a)
                /\ ammFees = prev[1].ammFees + a
                /\ lastTx[1].outcome # "onFeeDetectedThrows" =>
                     /\ Len(after.entries) = Len(before.entries) + 1
                     /\ LastEntry(after).eventType = "FEE"
                     /\ LastEntry(after).vaultType = "AMM"
                     /\ LastEntry(after).balanceBefore = Dec(0)
                     /\ LastEntry(after).balanceAfter = Dec(a)
                     /\ LastEntry(after).amount = Dec(a)
           /\ (inPre /\ ~inPost) =>
                /\ lastEvent = NoEvent
                /\ historyLog = prev[1].historyLog
                /\ file = prev[1].file
                /\ ammFees = prev[1].ammFees
                /\ callbacks = prev[1].callbacks

\* the fungible vault's token account was created by a transaction of the
\* instrument and the creation was recorded as a fee of its whole balance
C31_Witness ==
    /\ lastTx # None
    /\ lastTx[1].vaultType = "AMM"
    /\ lastTx[1].outcome = "ok"
    /\ lastTx[1].tx.kind = "tx"
    /\ MINT \in Referenced(lastTx[1].tx)
    /\ ~HoldsWatched(lastTx[1].tx.preTokenBalances, lastTx[1].tx)
    /\ HoldsWatched(lastTx[1].tx.postTokenBalances, lastTx[1].tx)
    /\ Len(historyLog[1].entries) = Len(prev[1].historyLog[1].entries) + 1
    /\ LastEntry(historyLog[1]).balanceBefore = Dec(0)
    /\ LastEntry(historyLog[1]).amount = Dec(1000000)

\* the fungible vault's token account was closed by a transaction of the
\* instrument and nothing was recorded
C31_WitnessClosure ==
    /\ lastTx # None
    /\ lastTx[1].vaultType = "AMM"
    /\ lastTx[1].tx.kind = "tx"
    /\ POOL \in Referenced(lastTx[1].tx)
    /\ HoldsWatched(lastTx[1].tx.preTokenBalances, lastTx[1].tx)
    /\ ~HoldsWatched(lastTx[1].tx.postTokenBalances, lastTx[1].tx)
    /\ lastEvent = NoEvent
    /\ historyLog = prev[1].historyLog

\* ------------------------------------------------------------------------
\* Properties of the signature cursor
\* ------------------------------------------------------------------------

\* the cursor of the account of the watched poll
CursorOf(vault) == IF vault = "BC" THEN lastBCSignature ELSE lastAMMSignature

\* position of a signature in a list, 0 when it is not in it
PositionIn(list, sig) ==
    IF \E i \in 1..Len(list) : list[i] = sig
      THEN CHOOSE i \in 1..Len(list) : list[i] = sig
      ELSE 0

IsPrefix(a, b) == Len(a) <= Len(b) /\ SubSeq(b, 1, Len(a)) = a

\* C4: when the cursor is initialized, lastSeenSignature is at position k
\* (0-based) of the newest-first list and none of the k newer signatures is
\* in the processed set, the poll processes exactly those k signatures,
\* oldest first, and then sets lastSeenSignature to the head of the list.
C4_YieldsNewerOldestFirst ==
    (/\ observed # None
     /\ observed[1].ok
     /\ observed[1].lastSeen # NULL
     /\ PositionIn(observed[1].list, observed[1].lastSeen) > 0) =>
        LET o == observed[1]
            k == PositionIn(o.list, o.lastSeen) - 1
            newer == SubSeq(o.list, 1, k)
        IN (\A i \in 1..k : newer[i] \notin o.processed) =>
             /\ IsPrefix(o.yielded, Reverse(newer))
             /\ o.finished =>
                  /\ o.yielded = Reverse(newer)
                  /\ CursorOf(o.vault) = o.list[1]

C4_Witness ==
    /\ observed # None
    /\ observed[1].vault = "BC"
    /\ observed[1].list = << "S5", "S4", "S3" >>
    /\ observed[1].lastSeen = "S3"
    /\ observed[1].processed = {}
    /\ observed[1].yielded = << "S4", "S5" >>
    /\ observed[1].finished
    /\ lastBCSignature = "S5"

\* C5: with an uninitialized cursor (lastSeenSignature = null) and a
\* non-empty newest-first list [Sn,...,S1], the poll processes no signature,
\* appends no entry, changes no fee total and sets lastSeenSignature = Sn.
C5_FirstObservationSkips ==
    (/\ observed # None
     /\ observed[1].ok
     /\ observed[1].lastSeen = NULL
     /\ Len(observed[1].list) > 0) =>
        /\ observed[1].finished
        /\ observed[1].yielded = << >>
        /\ processedTxs = observed[1].processed
        /\ historyLog = observed[1].historyLog
        /\ bcFees = observed[1].bcFees
        /\ ammFees = observed[1].ammFees
        /\ CursorOf(observed[1].vault) = observed[1].list[1]

C5_Witness ==
    /\ observed # None
    /\ observed[1].vault = "BC"
    /\ observed[1].lastSeen = NULL
    /\ observed[1].list = << "S5", "S4", "S3" >>
    /\ observed[1].finished
    /\ lastBCSignature = "S5"
    /\ ticks # EmptyBag

\* C24: after every poll of an account whose cursor is initialized and whose
\* returned signature list is non-empty, lastSeenSignature equals the head
\* of that list, whether the poll found zero or more signatures to process.
C24_CursorAtHead ==
    (/\ observed # None
     /\ observed[1].ok
     /\ observed[1].lastSeen # NULL
     /\ Len(observed[1].list) > 0
     /\ observed[1].finished) =>
        CursorOf(observed[1].vault) = observed[1].list[1]

\* C25: a poll whose signature list is empty processes nothing and leaves the
\* cursor unchanged: lastSeenSignature (null or not), the processed set, the
\* fee totals and the ledger are the same after the poll as before it.
C25_EmptyListNoEffect ==
    (/\ observed # None
     /\ observed[1].ok
     /\ Len(observed[1].list) = 0) =>
        /\ observed[1].finished
        /\ observed[1].yielded = << >>
        /\ CursorOf(observed[1].vault) = observed[1].lastSeen
        /\ processedTxs = observed[1].processed
        /\ bcFees = observed[1].bcFees
        /\ ammFees = observed[1].ammFees
        /\ historyLog = observed[1].historyLog

\* the native vault was polled with its cursor at S4 and an empty list came
\* back
C25_Witness ==
    /\ observed # None
    /\ observed[1].vault = "BC"
    /\ observed[1].ok
    /\ observed[1].list = << >>
    /\ observed[1].lastSeen = "S4"
    /\ observed[1].processed = {"S3", "S4"}
    /\ lastBCSignature = "S4"

\* the signatures of a list that are not in a set, in the order of the list
NotIn(list, processed) == SelectSeq(list, LAMBDA x : x \notin processed)

\* C26: when the cursor is initialized and the returned list does not contain
\* lastSeenSignature, the poll processes exactly the signatures of the list
\* that are not in the processed set, oldest first, and then sets
\* lastSeenSignature to the head of the list; no signature outside the list
\* is processed.
C26_CursorNotInList ==
    (/\ observed # None
     /\ observed[1].ok
     /\ observed[1].lastSeen # NULL
     /\ Len(observed[1].list) > 0
     /\ PositionIn(observed[1].list, observed[1].lastSeen) = 0) =>
        LET o == observed[1]
            fresh == Reverse(NotIn(o.list, o.processed))
        IN /\ IsPrefix(o.yielded, fresh)
           /\ o.finished =>
                /\ o.yielded = fresh
                /\ CursorOf(o.vault) = o.list[1]

\* ------------------------------------------------------------------------
\* Properties of the two accounts over a run
\* ------------------------------------------------------------------------

\* C27: a signature that was in an account's signature list at that account's
\* first observation never produces a ledger entry for that account in any
\* later poll of the run, for any later sequence of returned lists.
C27_PreexistingSkipped ==
    \A i \in 1..Len(historyLog[1].entries) :
        historyLog[1].entries[i].txSignature
            \notin perAccount.first[historyLog[1].entries[i].vaultType]

\* C28: cursor state is per watched account: a signature that appears in both
\* accounts' lists and was processed for one account is still processed for
\* the other. After a poll of an account whose list contains its cursor,
\* every signature of the list newer than the cursor has been handed to the
\* extractor of that account, in this poll or an earlier one.
C28_PerAccountDedup ==
    (/\ observed # None
     /\ observed[1].ok
     /\ observed[1].lastSeen # NULL
     /\ PositionIn(observed[1].list, observed[1].lastSeen) > 0
     /\ observed[1].finished) =>
        \A i \in 1..(PositionIn(observed[1].list, observed[1].lastSeen) - 1) :
            observed[1].list[i] \in perAccount.handled[observed[1].vault]

\* ------------------------------------------------------------------------
\* Properties of the running daemon
\* ------------------------------------------------------------------------

\* C3: in every reachable state, under any poll ticks, any returned
\* signature lists and restarts that reload the persisted ledger, no two
\* ledger entries for the same vault carry the same txSignature.
C3_NoDuplicateSignature ==
    historyLog # None =>
        \A i, j \in 1..Len(historyLog[1].entries) :
            (/\ historyLog[1].entries[i].vaultType = historyLog[1].entries[j].vaultType
             /\ historyLog[1].entries[i].txSignature = historyLog[1].entries[j].txSignature)
                => i = j

\* C9: once tokenInfo.migrated of a daemon object has been true, no tick,
\* stop or start on that object, whatever snapshot it reads, makes it false.
C9_MigrationLatch ==
    [][(/\ tokenInfo # None
        /\ tokenInfo[1].migrated
        /\ tokenInfo' # None) => tokenInfo'[1].migrated]_vars

\* C10: at no time are two poll ticks in progress at once.
C10_NoOverlappingTicks == BagCardinality(ticks) <= 1

\* C11: under every interleaving of the two pipelines and of overlapping
\* ticks, sequence and prevHash are assigned and the entry is stored in one
\* uninterrupted step: no two entries of the ledger have the same sequence
\* and every prevHash is the hash of the entry stored immediately before.
C11_AppendsSerialized ==
    historyLog # None =>
        \A i \in 1..Len(historyLog[1].entries) :
            /\ historyLog[1].entries[i].sequence = i
            /\ historyLog[1].entries[i].prevHash =
                 IF i = 1 THEN GENESIS_HASH ELSE historyLog[1].entries[i - 1].hash
            /\ \A j \in 1..Len(historyLog[1].entries) :
                 historyLog[1].entries[j].sequence =
                   historyLog[1].entries[i].sequence => j = i

\* two overlapping ticks have each appended an entry for the same signature
C11_Witness ==
    /\ historyLog # None
    /\ Len(historyLog[1].entries) = 2
    /\ historyLog[1].entries[1].txSignature = historyLog[1].entries[2].txSignature
    /\ historyLog[1].entries[2].sequence = 2

\* ------------------------------------------------------------------------
\* Properties of the persisted ledger
\* ------------------------------------------------------------------------

\* the entries of the persisted ledger; none without a file, or with a file
\* that is not JSON
PersistedEntries(f) ==
    IF f = None \/ ~Loads(f[1]) THEN << >> ELSE loadHistoryLog(f[1]).entries

\* C12: the persisted ledger is append-only across every operation: its
\* entries before a step are a prefix of its entries after it, also when
\* the daemon is started against an existing file, loadable or not.
C12_AppendOnly ==
    [][IsPrefix(PersistedEntries(file), PersistedEntries(file'))]_vars

\* the sum of the amounts of the FEE entries from entry k on
RECURSIVE SumOfFees(_, _)
SumOfFees(entries, k) ==
    IF k > Len(entries) THEN 0
    ELSE (IF entries[k].eventType = "FEE" THEN BigIntOf(entries[k].amount) ELSE 0)
         + SumOfFees(entries, k + 1)

\* C13: in every persisted ledger state, after any starts, ticks, callbacks
\* (also throwing ones) and stops (also stop then start on the same daemon
\* object), the summary fields follow from the entries: entryCount is
\* their number, latestHash the hash of the last one (GENESIS_HASH without
\* entries) and totalFees the sum of the amounts of the FEE entries.
C13_SummaryRecomputable ==
    (file # None /\ Loads(file[1])) =>
        LET log == loadHistoryLog(file[1]) IN
        /\ log.entryCount = Len(log.entries)
        /\ log.latestHash = IF Len(log.entries) = 0 THEN GENESIS_HASH
                            ELSE log.entries[Len(log.entries)].hash
        /\ log.totalFees = Dec(SumOfFees(log.entries, 1))

\* the step appended an entry to the in-memory ledger
Appended ==
    /\ lastCall'[1].op \in {"processTransaction", "processAMMTransaction"}
    /\ historyLog # None
    /\ historyLog' # None
    /\ Len(historyLog'[1].entries) = Len(historyLog[1].entries) + 1

C15_PersistedValidPrefix ==
    file # None =>
        /\ Loads(file[1])
        /\ verifyHistoryChain(loadHistoryLog(file[1])) = VerifyValid
        /\ historyLog # None =>
             IsPrefix(PersistedEntries(file), historyLog[1].entries)

\* C16: stop() lets a tick in flight finish before its final persist: once
\* the daemon is stopped, no entry is appended, no fee total changes and the
\* file is not written again until the next start(), even if a tick was
\* suspended on a data-source call when stop() was called.
C16_QuiescentAfterStop ==
    [][(/\ ~running /\ ~running'
        /\ starting = 0 /\ starting' = 0
        /\ historyLog # None /\ historyLog' # None) =>
            /\ historyLog'[1].entries = historyLog[1].entries
            /\ bcFees' = bcFees
            /\ ammFees' = ammFees
            /\ file' = file]_vars

\* C23: under every interleaving of start() and stop() calls, a second
\* start() issued while the first is still awaiting initialization included,
\* at most one poll timer is ever armed and a timer is armed only while the
\* daemon is running (STOPPED -> INITIALIZING -> RUNNING -> STOPPED).
C23_Lifecycle ==
    /\ timers <= 1
    /\ timers > 0 => running
    /\ pollTimer => running

\* C35: initialization either loads a compatible persisted ledger or creates
\* a fresh one: whenever the daemon holds a ledger, its identity fields
\* (mint, bondingCurve, creator, the two vault addresses) are those of the
\* tracked instrument, so a ledger file of another instrument is not loaded.
C35_LedgerOfTrackedInstrument ==
    historyLog # None =>
        /\ historyLog[1].mint = MINT
        /\ historyLog[1].bondingCurve = BONDING_CURVE
        /\ historyLog[1].creator = CREATOR
        /\ historyLog[1].creatorVaultBC = VAULT_BC
        /\ historyLog[1].creatorVaultAMM = VAULT_AMM

\* start() has loaded the ledger of the history file
LoadedAtStart ==
    /\ lastCall' # None
    /\ lastCall'[1].op = "initializeToken"
    /\ lastCall'[1].result = "ok"
    /\ starting' = starting - 1
    /\ ~CreatesFresh

\* the ledger that start() loads is the persisted one, and an entry appended
\* to a ledger of n entries gets sequence n + 1 and the hash of the n-th
\* entry (GENESIS_HASH for n = 0) as prevHash, and leaves a valid ledger
ChainContinues ==
    /\ LoadedAtStart => historyLog' = Some(loadHistoryLog(file[1]))
    /\ Appended =>
         LET old == historyLog[1]
             n == Len(old.entries)
             e == LastEntry(historyLog'[1])
         IN /\ SubSeq(historyLog'[1].entries, 1, n) = old.entries
            /\ e.sequence = n + 1
            /\ e.prevHash = IF n = 0 THEN GENESIS_HASH ELSE old.entries[n].hash
            /\ verifyHistoryChain(historyLog'[1]).valid

\* C36: the chain continues across a reload: when a persisted valid ledger
\* with n entries is loaded at start, the first entry appended afterwards
\* has sequence n + 1 and a prevHash equal to both the hash of the loaded
\* n-th entry and the loaded latestHash field, and the ledger after further
\* appends still verifies as valid.
C36_ChainContinuesAcrossReload ==
    [][/\ ChainContinues
       /\ Appended => LastEntry(historyLog'[1]).prevHash = historyLog[1].latestHash]_vars

\* the ledger of an earlier run (one entry) was loaded at start and the
\* first fee detected afterwards was appended to it as entry 2
C36_Witness ==
    /\ lastCall # None
    /\ lastCall[1].op = "processTransaction"
    /\ historyLog # None
    /\ Len(historyLog[1].entries) = 2
    /\ historyLog[1].entries[1] = LoadedLedger.entries[1]
    /\ historyLog[1].entries[2].sequence = 2
    /\ historyLog[1].entries[2].prevHash = LoadedLedger.latestHash
    /\ historyLog[1].entries[2].txSignature = "S5"
    /\ verifyHistoryChain(historyLog[1]).valid

\* C37: whenever the daemon holds a ledger, the ledger's migrated flag
\* equals tokenInfo.migrated, also after a start that loaded a ledger whose
\* persisted flag differs from the bonding-curve state read at that start.
C37_FlagEqualsLatch ==
    (historyLog # None /\ tokenInfo # None) =>
        historyLog[1].migrated = tokenInfo[1].migrated

\* ------------------------------------------------------------------------
\* Properties of the daemon with failing collaborators
\* ------------------------------------------------------------------------

\* the step was a step of a tick in which the data-source call failed
TickCallFailed ==
    /\ lastCall' # None
    /\ lastCall'[1].op \in {"checkMigration", "pollVaultTransactions",
                            "processTransaction", "pollAMMVaultTransactions",
                            "processAMMTransaction"}
    /\ lastCall'[1].result \in {"error", "unusable"}

\* the step handed processTransaction / processAMMTransaction a record that
\* is absent, has no meta, or makes the try block throw
RecordUnusable ==
    /\ ticks' # ticks
    /\ lastCall' # None
    /\ lastCall'[1].op \in {"processTransaction", "processAMMTransaction"}
    /\ lastCall'[1].result \in {"absent", "noMeta", "error"}

\* C32: a transaction record that is absent, lacks its metadata, or makes
\* extraction throw produces no event and is never fatal: the step leaves
\* ledger, file, fee totals and callback counts as they were, the daemon
\* keeps running, and the poll in progress goes on with the remaining
\* signatures of the batch in their order (after the last one, with the
\* step that follows the batch).
C32_UnusableRecordSkipped ==
    [][RecordUnusable =>
         /\ UNCHANGED << feeVars, lifeVars, tokenInfo >>
         /\ \A u \in BagToSet(ticks) :
              u.pc \in {"bcTx", "ammTx"} =>
                 /\ lastCall'[1].sig = Head(u.queue)
                 /\ IF Len(u.queue) > 1
                      THEN ticks' = SetToBag({[u EXCEPT !.queue = Tail(@)]})
                      ELSE ticks' = (IF u.pc = "bcTx" THEN AfterBC ELSE AfterAMM)]_vars

\* a record without meta was skipped in a batch of two and the second
\* signature of the batch is the next to be processed
C32_Witness ==
    /\ lastCall # None
    /\ lastCall[1].op = "processTransaction"
    /\ lastCall[1].result = "noMeta"
    /\ lastCall[1].sig = "S4"
    /\ \E u \in BagToSet(ticks) : u.pc = "bcTx" /\ u.queue = << "S5" >>
    /\ historyLog # None
    /\ historyLog[1].entries = << >>
    /\ bcFees = 0

C18_FailedFetchRetried ==
    (/\ lastCall # None
     /\ lastCall[1].op \in {"processTransaction", "processAMMTransaction"}
     /\ lastCall[1].result \in {"error", "absent"}) =>
        lastCall[1].sig \notin processedTxs

\* C19: when at start the bonding-curve account is absent or cannot be
\* decoded, start() fails and the daemon is left not running: no poll timer
\* is armed and the history file is neither created nor modified.
C19_FailedStartNotRunning ==
    [][(starting' = starting - 1 /\ timers' = timers) =>
          /\ ~running'
          /\ ~pollTimer'
          /\ timers' = 0
          /\ file' = file]_vars

\* a poll tick, not a start, takes the migration latch from false to true
TickLatches ==
    /\ tokenInfo # None
    /\ ~tokenInfo[1].migrated
    /\ tokenInfo' # None
    /\ tokenInfo'[1].migrated
    /\ starting' = starting
    /\ startCalls' = startCalls

\* C34: on one daemon object onMigration is called at most once, exactly in
\* the step of the tick that takes the latch from false to true, and only
\* with the ledger's migrated flag set and persisted; no later tick and no
\* overlapping tick calls it again.
C34_MigrationCallbackOnce ==
    [][startCalls' >= startCalls =>
         /\ callbacks'.onMigration # callbacks.onMigration =>
              /\ callbacks.onMigration = 0
              /\ callbacks'.onMigration = 1
              /\ TickLatches
              /\ historyLog' # None =>
                   /\ historyLog'[1].migrated
                   /\ file' = Some(JSON_stringify(historyLog'[1]))
         /\ TickLatches => callbacks'.onMigration = callbacks.onMigration + 1]_vars

\* the step called onFeeDetected
FeeDetectedCalled == callbacks'.onFeeDetected = callbacks.onFeeDetected + 1

\* the step called onHistoryEntry
HistoryEntryCalled == callbacks'.onHistoryEntry > callbacks.onHistoryEntry

\* C40: the effects of a detected fee happen in one step and in a fixed
\* order: fee total, onFeeDetected, append with the next sequence, persist,
\* onHistoryEntry.  A step that calls onFeeDetected has raised a fee total
\* (also when the callback throws and nothing follows); an entry is
\* appended only in a step that called onFeeDetected, with the next
\* sequence, and the step then attempts the write (also when the write
\* fails and nothing follows); onHistoryEntry is called once, only in a step
\* that appended, and only when the file holds the ledger with the new
\* entry.
C40_EffectsInOrder ==
    [][/\ FeeDetectedCalled =>
            /\ lastCall'[1].op \in {"processTransaction", "processAMMTransaction"}
            /\ bcFees' + ammFees' > bcFees + ammFees
       /\ Appended =>
            /\ FeeDetectedCalled
            /\ LastEntry(historyLog'[1]).sequence = Len(historyLog[1].entries) + 1
            /\ lastCall'[1].write # "none"
            /\ lastCall'[1].write = "ok" => HistoryEntryCalled
       /\ HistoryEntryCalled =>
            /\ Appended
            /\ callbacks'.onHistoryEntry = callbacks.onHistoryEntry + 1
            /\ file' = Some(JSON_stringify(historyLog'[1]))
            /\ PersistedEntries(file') = historyLog'[1].entries]_vars

\* a fee of the native vault went through all five effects: fee total,
\* both callbacks, and the entry in memory and in the file
C40_Witness ==
    /\ lastCall # None
    /\ lastCall[1].op = "processTransaction"
    /\ lastCall[1].write = "ok"
    /\ bcFees = 500000
    /\ callbacks.onFeeDetected = 1
    /\ callbacks.onHistoryEntry = 1
    /\ historyLog # None
    /\ Len(historyLog[1].entries) = 1
    /\ PersistedEntries(file) = historyLog[1].entries

\* the write of a fee's entry failed: fee total, onFeeDetected and the entry
\* in memory are there, onHistoryEntry was not called
C40_WitnessFailedWrite ==
    /\ lastCall # None
    /\ lastCall[1].op = "processTransaction"
    /\ lastCall[1].write = "failed"
    /\ bcFees = 500000
    /\ callbacks.onFeeDetected = 1
    /\ callbacks.onHistoryEntry = 0
    /\ historyLog # None
    /\ Len(historyLog[1].entries) = 1
    /\ PersistedEntries(file) = << >>

\* ------------------------------------------------------------------------
\* Properties of the verify command
\* ------------------------------------------------------------------------

\* C20: the verify command exits with code 1 whenever the file cannot be
\* loaded or verifyHistoryChain returns invalid, exits with code 0 only when
\* verifyHistoryChain returns valid, and on a verification failure reports
\* the failing entry index and the reason.
C20_VerifyExitCode ==
    verified # None =>
        LET loads == file # None /\ Loads(file[1])
            result == IF loads THEN verifyHistoryChain(loadHistoryLog(file[1]))
                      ELSE VerifyValid
        IN /\ (~loads \/ ~result.valid) => verified[1].code = 1
           /\ verified[1].code = 0 => (loads /\ result.valid)
           /\ verified[1].code \in {0, 1}
           /\ (loads /\ ~result.valid) =>
                /\ verified[1].report.entryIndex = result.entryIndex
                /\ verified[1].report.error = result.error

\* the command has failed on the second entry of a ledger whose hash no
\* longer matches
C20_Witness ==
    /\ verified # None
    /\ verified[1].code = 1
    /\ verified[1].report.entryIndex = 1
    /\ verified[1].report.error = << "Hash mismatch" >>
    /\ file # None
    /\ Loads(file[1])
    /\ Len(loadHistoryLog(file[1]).entries) = 2

\* ------------------------------------------------------------------------
\* Properties of the balance-polling daemon
\* ------------------------------------------------------------------------

\* C30: every change of a vault's balance between two consecutive successful
\* polls is recorded exactly once: a positive delta appends one FEE entry and
\* adds the delta to that vault's fee total, a negative delta appends one
\* CLAIM entry (amount keeps the negative sign) and changes no fee total, a
\* zero delta appends nothing; no change is recorded by two polls, also when
\* the persist of the entry fails.
C30_BalanceChangeOnce ==
    (polled # None /\ polled.last # None /\ polled.last[1].ok) =>
        LET l == polled.last[1]
            d == l.current - l.seen
            before == l.historyLog[1].entries
            after == historyLog[1].entries
            own == IF l.vaultType = "BC" THEN bcFees - l.bcFees
                   ELSE ammFees - l.ammFees
            other == IF l.vaultType = "BC" THEN ammFees - l.ammFees
                     ELSE bcFees - l.bcFees
        IN /\ other = 0
           /\ own = IF d > 0 THEN d ELSE 0
           /\ IF d = 0 THEN after = before
              ELSE /\ Len(after) = Len(before) + 1
                   /\ IsPrefix(before, after)
                   /\ after[Len(after)].eventType =
                        IF d > 0 THEN "FEE" ELSE "CLAIM"
                   /\ after[Len(after)].vaultType = l.vaultType
                   /\ after[Len(after)].amount = Dec(d)

\* C33: the fungible (AMM) vault pipeline runs only once migration has been
\* observed: a step taken while the migration latch is false neither polls
\* the AMM vault nor appends an entry with vaultType = AMM.
C33_AMMOnlyAfterMigration ==
    [][(tokenInfo # None /\ ~tokenInfo[1].migrated) =>
          /\ \A u \in BagToSet(ticks) :
                u.pc = "ammBalance" => u \in BagToSet(ticks')
          /\ Len(historyLog'[1].entries) > Len(historyLog[1].entries) =>
                LastEntry(historyLog'[1]).vaultType # "AMM"]_vars

\* ------------------------------------------------------------------------
\* Properties of both modes
\* ------------------------------------------------------------------------

\* C38: every entry the daemon appends, in the transaction-sourced and in
\* the balance-polling mode, satisfies amount = balanceAfter - balanceBefore
\* as integers, amount keeping its sign.
C38_AmountIsDifference ==
    [][\A i \in (Len(historyLog[1].entries) + 1)..Len(historyLog'[1].entries) :
          LET e == historyLog'[1].entries[i] IN
          BigIntOf(e.amount) = BigIntOf(e.balanceAfter) - BigIntOf(e.balanceBefore)]_vars

\* the balance-polling daemon has recorded a fall of the native vault's
\* balance from 1500000 to 1000000 as a CLAIM entry of -500000
C38_Witness ==
    /\ polled # None
    /\ polled.last # None
    /\ Len(historyLog[1].entries) = Len(polled.last[1].historyLog[1].entries) + 1
    /\ LastEntry(historyLog[1]).eventType = "CLAIM"
    /\ LastEntry(historyLog[1]).amount = Dec(-500000)
    /\ LastEntry(historyLog[1]).balanceBefore = Dec(1500000)
    /\ LastEntry(historyLog[1]).balanceAfter = Dec(1000000)

\* the transaction-sourced daemon has recorded a rise of the native vault's
\* lamports from 1000000 to 1500000 as a FEE entry of 500000
C38_WitnessFee ==
    /\ polled = None
    /\ lastTx # None
    /\ lastTx[1].vaultType = "BC"
    /\ Len(historyLog[1].entries) = Len(prev[1].historyLog[1].entries) + 1
    /\ LastEntry(historyLog[1]).amount = Dec(500000)
    /\ LastEntry(historyLog[1]).balanceBefore = Dec(1000000)
    /\ LastEntry(historyLog[1]).balanceAfter = Dec(1500000)

====
